---- MODULE Spec2Model ----
(***************************************************************************)
(* Connection supervisor, manager and proxy gateway of local-mcp-proxy.    *)
(*                                                                         *)
(* McpConnection (mcp/connection.rs) is a supervisor object: its fields    *)
(* are one record of conns.  McpManager (mcp/manager.rs) is the registry   *)
(* `connections` and the `config`, behind the one tokio Mutex mgr_lock.    *)
(* Every task of the program (initialisation, the health loop, a tauri     *)
(* command, a proxy POST handler, a proxy GET handler) is a process with a *)
(* program counter; one action is one stretch of code between two points   *)
(* where the task can be suspended waiting for a lock or for the backend.  *)
(***************************************************************************)
EXTENDS Integers, Sequences, FiniteSets, TLC

\* ---------------------------------------------------------------- bounds
\* Value of max_reconnect_attempts in the configs the model starts from.
MaxAttempts == 2
\* The attempt counters kept for the reconnect bound stop counting here.
AttemptCap == 4
\* Longest batch a client posts.
MaxBatch == 2
\* Supervisor objects the manager can create in one run.
MaxConns == 2
\* Lines the bridge reads from stdin in one run.
MaxLines == 2
\* events of the SSE stream consumed in a run, the one that ends it apart
MaxEvents == 4
\* requests the handler sends through the legacy SSE worker
MaxReqs == 2

\* ------------------------------------------------------------- constants
Ids == {"a"}
ConnObjs == 1..MaxConns
Tasks == {"init", "health", "cmd", "post", "get", "add", "update", "remove", "cfg"}
Free == "free"

\* Option<T>: None is the empty sequence, Some(x) the one-element sequence.
None == <<>>
Some(x) == <<x>>

\* types.rs ConnectionState
ConnectionState == {"Disconnected", "Connecting", "Connected", "Error", "Reconnecting"}

\* default_proxy_port
DefaultProxyPort == 3001
DefaultHealthInterval == 30
DefaultConnectionTimeout == 30
Ports == {DefaultProxyPort, DefaultProxyPort + 1}

ToolNames == {"ta", "tb"}
ResourceUris == {"ra", "rb"}

\* JSON-RPC error codes used by the gateway.
MethodNotFoundCode == -32601
ServerErrorCode == -32000

VARIABLES
    conns,          \* [ConnObjs -> McpConnection fields]
    connections,    \* McpManager.connections: id -> Option<supervisor object>
    config,         \* McpManager.config
    next_conn,      \* next supervisor object to allocate
    mgr_lock,       \* holder of Arc<Mutex<McpManager>>
    pc,             \* program counter of each task
    tgt,            \* the Arc<McpConnection> each task holds (an Option)
    init_i,         \* initialize(): index into the cloned config list
    h_todo,         \* health_check_cycle(): ids still to visit
    backend,        \* environment: per id, the backend's [mode, tools, resources]
    body,           \* the JSON body the client posts to /mcp/:id
    post_i,         \* index of the batch element being handled
    responses,      \* responses collected so far for the POST
    disabled,       \* the (disabled_tools, disabled_resources) snapshot of the POST
    http_resp,      \* the last HTTP response of POST /mcp/:id
    sent,           \* messages the backend received for the current POST
    get_route,      \* route of the GET being handled
    bridge,         \* mcp-hub-bridge: the stdin line, the POST's outcome, stdout
    sse,            \* LegacySseWorker::run: its position, the stream, the POSTs made
    session,        \* GracefulHttpClient::delete_session: the call and its result
    cm_lock         \* holder of Arc<Mutex<ConfigManager>>

\* The components beside the core: the bridge binary, the two HTTP transports, and
\* the lock of the ConfigManager that commands.rs takes to save the configuration.
ext_vars == <<bridge, sse, session, cm_lock>>

\* A component that does not run.
Off == [pc |-> "off"]
ExtOff == bridge = Off /\ sse = Off /\ session = Off /\ cm_lock = Free

vars == <<conns, connections, config, next_conn, mgr_lock, pc, tgt, init_i, h_todo,
          backend, body, post_i, responses, disabled, http_resp, sent, get_route, ext_vars>>

mgr_vars == <<connections, config, next_conn>>
post_vars == <<body, post_i, responses, disabled, http_resp, sent>>

\* ------------------------------------------------- McpConnection (pure part)

\* McpServerConfig (the fields the core reads)
ServerConfig(id, enabled, disabled_tools, disabled_resources) ==
    [id |-> id, enabled |-> enabled, disabled_tools |-> disabled_tools,
     disabled_resources |-> disabled_resources]

\* McpConnection::new
NewConnection(cfg) ==
    [ config |-> cfg,
      state |-> "Disconnected",
      service |-> None,
      service_lock |-> Free,
      tools |-> <<>>,
      resources |-> <<>>,
      connected_at |-> None,
      last_ping |-> None,
      error_message |-> None,
      reconnect_attempts |-> 0,
      \* bookkeeping of the model: connect() calls made on this supervisor since it
      \* was created, and those of them the health loop made (both stop at AttemptCap)
      calls |-> [total |-> 0, health |-> 0] ]

\* The slot of a supervisor object that does not exist, or no longer exists.
NoObject == NewConnection(ServerConfig("", FALSE, {}, {}))

\* McpConnection::set_state
set_state(s, new_state) ==
    IF new_state = "Connected"
    THEN [s EXCEPT !.state = new_state,
                   !.connected_at = Some("now"),
                   !.error_message = None,
                   !.reconnect_attempts = 0]
    ELSE IF new_state = "Disconnected"
    THEN [s EXCEPT !.state = new_state, !.connected_at = None]
    ELSE [s EXCEPT !.state = new_state]

\* McpConnection::set_error
set_error(s, msg) == [s EXCEPT !.error_message = Some(msg)]

\* McpConnection::increment_reconnect_attempts
increment_reconnect_attempts(s) ==
    [s EXCEPT !.reconnect_attempts = @ + 1]

\* format!("http://127.0.0.1:{}/mcp/{}", proxy_port, id)
ProxyUrl(proxy_port, id) ==
    [scheme |-> "http", host |-> "127.0.0.1", port |-> proxy_port, path |-> <<"mcp", id>>]

\* status() with proxy_url taken from connected_at instead of the state.
status_by_connected_at(s, proxy_port) ==
    [ id |-> s.config.id,
      state |-> s.state,
      connected_at |-> s.connected_at,
      last_ping |-> s.last_ping,
      error_message |-> s.error_message,
      tools_count |-> Len(s.tools),
      resources_count |-> Len(s.resources),
      uptime_seconds |-> IF s.connected_at # None THEN Some("elapsed") ELSE None,
      proxy_url |-> IF s.connected_at # None
                    THEN Some(ProxyUrl(proxy_port, s.config.id))
                    ELSE None ]

\* McpConnection::status
status(s, proxy_port) ==
    [ id |-> s.config.id,
      state |-> s.state,
      connected_at |-> s.connected_at,
      last_ping |-> s.last_ping,
      error_message |-> s.error_message,
      tools_count |-> Len(s.tools),
      resources_count |-> Len(s.resources),
      uptime_seconds |-> IF s.connected_at # None THEN Some("elapsed") ELSE None,
      proxy_url |-> IF s.state = "Connected"
                    THEN Some(ProxyUrl(proxy_port, s.config.id))
                    ELSE None ]

\* McpManager::get_proxy_url
get_proxy_url(proxy_port, id) ==
    [scheme |-> "http", host |-> "127.0.0.1", port |-> proxy_port, path |-> <<"mcp", id, "sse">>]

\* The supervisor objects created so far.
Allocated == 1..(next_conn - 1)

\* McpManager::get_connection
get_connection(id) == connections[id]

\* McpManager::list_statuses (the order of the list is not modelled)
list_statuses ==
    { status(conns[connections[id][1]], config.proxy_port) :
        id \in {i \in Ids : connections[i] # None} }

\* ------------------------------------------------------------ environment

\* A backend is "up", "down" (it may come back), "dead" (down for the whole run) or
\* "silent" (it accepts the transport and never answers the handshake).
BackendModes == {"up", "down", "dead", "silent"}

\* The transport of every open session to a backend closes when the backend goes down.
BackendDown(id) ==
    /\ backend[id].mode = "up"
    /\ backend' = [backend EXCEPT ![id].mode = "down"]
    /\ conns' = [c \in ConnObjs |->
                   IF conns[c].config.id = id /\ conns[c].service = Some("live")
                   THEN [conns[c] EXCEPT !.service = Some("dead")]
                   ELSE conns[c]]
    /\ UNCHANGED <<mgr_vars, mgr_lock, pc, tgt, init_i, h_todo, post_vars, get_route, ext_vars>>

BackendUp(id) ==
    /\ backend[id].mode = "down"
    /\ backend' = [backend EXCEPT ![id].mode = "up"]
    /\ UNCHANGED <<conns, mgr_vars, mgr_lock, pc, tgt, init_i, h_todo, post_vars, get_route, ext_vars>>

\* ------------------------------------------------- McpConnection (tasks in it)

Goto(t, label) == pc' = [pc EXCEPT ![t] = label]
Conn(t) == tgt[t][1]

\* Where a task continues when connect(), disconnect() or ping() returns to it.
Return(t) ==
    CASE t = "init" -> "init_insert"
      [] t = "health" -> "h_next"
      [] t = "add" -> "add_insert"
      [] t = "update" -> IF pc[t] = "disc_state" THEN "upd_new" ELSE "upd_insert"
      [] t = "remove" -> "rm_config"
      [] OTHER -> "idle"

\* Bookkeeping for the reconnect bound: one more connect() call on s by task t,
\* counted while the backend is down for the whole run.
CountCall(s, t) ==
    IF backend[s.config.id].mode = "dead"
    THEN [s EXCEPT !.calls.total = IF @ < AttemptCap THEN @ + 1 ELSE @,
                   !.calls.health = IF t = "health" /\ @ < AttemptCap THEN @ + 1 ELSE @]
    ELSE s

sup_frame == <<mgr_vars, mgr_lock, tgt, init_i, h_todo, backend, post_vars, get_route, ext_vars>>

\* connect(): set_state(Connecting)
ConnectBegin(t) ==
    /\ pc[t] = "connect"
    /\ conns' = [conns EXCEPT ![Conn(t)] = CountCall(set_state(@, "Connecting"), t)]
    /\ Goto(t, "open")
    /\ UNCHANGED sup_frame

\* connect_stdio / connect_sse / connect_http succeed: the session is stored
ConnectOpenOk(t) ==
    /\ pc[t] = "open"
    /\ backend[conns[Conn(t)].config.id].mode = "up"
    /\ conns[Conn(t)].service_lock = Free
    /\ conns' = [conns EXCEPT ![Conn(t)].service = Some("live")]
    /\ Goto(t, "fetch")
    /\ UNCHANGED sup_frame

\* the Err(e) arm of connect() run without interruption: set_error, set_state(Error)
connect_failed(s) == set_state(set_error(s, "connect failed"), "Error")

\* connect_stdio / connect_sse / connect_http fail; the Err(e) arm starts: set_error
ConnectOpenFail(t) ==
    /\ pc[t] = "open"
    /\ backend[conns[Conn(t)].config.id].mode \in {"down", "dead"}
    /\ conns' = [conns EXCEPT ![Conn(t)] = set_error(@, "connect failed")]
    /\ Goto(t, "set_error_state")
    /\ UNCHANGED sup_frame

\* the Err(e) arm of connect(), after set_error: set_state(Error), Err(e)
ConnectSetError(t) ==
    /\ pc[t] = "set_error_state"
    /\ conns' = [conns EXCEPT ![Conn(t)] = set_state(@, "Error")]
    /\ Goto(t, Return(t))
    /\ UNCHANGED sup_frame

\* fetch_capabilities: the service lock is taken; with no session it is Err("Not connected")
ConnectFetchLock(t) ==
    /\ pc[t] = "fetch"
    /\ conns[Conn(t)].service_lock = Free
    /\ IF conns[Conn(t)].service = None
       THEN /\ Goto(t, "set_connected")
            /\ UNCHANGED conns
       ELSE /\ conns' = [conns EXCEPT ![Conn(t)].service_lock = t]
            /\ Goto(t, "fetching")
    /\ UNCHANGED sup_frame

\* fetch_capabilities: what list_tools and list_resources leave in the caches
fetch_capabilities(s, tools_ok, resources_ok, b) ==
    [s EXCEPT !.tools = IF tools_ok THEN b.tools ELSE @,
              !.resources = IF resources_ok THEN b.resources ELSE @]

\* fetch_capabilities: both list calls answered (or failed); the service lock is dropped
ConnectFetchDone(t) ==
    /\ pc[t] = "fetching"
    /\ \E tools_ok, resources_ok \in BOOLEAN :
         /\ conns[Conn(t)].service = Some("dead") => ~tools_ok /\ ~resources_ok
         /\ conns' = [conns EXCEPT ![Conn(t)] =
                        [fetch_capabilities(@, tools_ok, resources_ok,
                                            backend[@.config.id])
                           EXCEPT !.service_lock = Free]]
    /\ Goto(t, "set_connected")
    /\ UNCHANGED sup_frame

\* the Ok(()) arm of connect(): set_state(Connected), Ok(())
ConnectSetConnected(t) ==
    /\ pc[t] = "set_connected"
    /\ conns' = [conns EXCEPT ![Conn(t)] = set_state(@, "Connected")]
    /\ Goto(t, Return(t))
    /\ UNCHANGED sup_frame

\* disconnect(): self.service.lock().await.take(), service.cancel()
DisconnectTake(t) ==
    /\ pc[t] = "disc"
    /\ conns[Conn(t)].service_lock = Free
    /\ conns' = [conns EXCEPT ![Conn(t)].service = None]
    /\ Goto(t, "disc_clear")
    /\ UNCHANGED sup_frame

\* disconnect(): the caches are emptied
DisconnectClear(t) ==
    /\ pc[t] = "disc_clear"
    /\ conns' = [conns EXCEPT ![Conn(t)].tools = <<>>, ![Conn(t)].resources = <<>>]
    /\ Goto(t, "disc_state")
    /\ UNCHANGED sup_frame

\* disconnect(): set_state(Disconnected)
DisconnectSetState(t) ==
    /\ pc[t] = "disc_state"
    /\ conns' = [conns EXCEPT ![Conn(t)] = set_state(@, "Disconnected")]
    /\ Goto(t, Return(t))
    /\ UNCHANGED sup_frame

\* disconnect() run without interruption
disconnect(s) ==
    set_state([s EXCEPT !.service = None, !.tools = <<>>, !.resources = <<>>],
              "Disconnected")

\* ping(): the service lock is taken; with no session it is Err("Not connected")
PingLock(t) ==
    /\ pc[t] = "ping"
    /\ conns[Conn(t)].service_lock = Free
    /\ IF conns[Conn(t)].service = None
       THEN /\ Goto(t, Return(t))
            /\ UNCHANGED conns
       ELSE /\ conns' = [conns EXCEPT ![Conn(t)].service_lock = t]
            /\ Goto(t, "pinging")
    /\ UNCHANGED sup_frame

\* ping() that sets Error when list_tools fails.
ping_result_sets_error(s, ok) ==
    IF ok THEN [s EXCEPT !.last_ping = Some("now")] ELSE set_state(s, "Error")

\* ping(): what the outcome of list_tools leaves in the supervisor
ping_result(s, ok) ==
    IF ok THEN [s EXCEPT !.last_ping = Some("now")] ELSE s

\* ping(): list_tools answered (or failed); the service lock is dropped
PingDone(t) ==
    /\ pc[t] = "pinging"
    /\ \E ok \in BOOLEAN :
         /\ conns[Conn(t)].service = Some("dead") => ~ok
         /\ conns' = [conns EXCEPT ![Conn(t)] =
                        [ping_result(@, ok) EXCEPT !.service_lock = Free]]
    /\ Goto(t, Return(t))
    /\ UNCHANGED sup_frame

\* ------------------------------------------------------------- McpManager

\* McpManager::initialize runs with the manager lock held (lib.rs, the spawned
\* initialisation task): the lock is taken here and dropped when the loop ends.
InitAcquire ==
    /\ pc["init"] = "start"
    /\ mgr_lock = Free
    /\ mgr_lock' = "init"
    /\ init_i' = 1
    /\ Goto("init", "init_next")
    /\ UNCHANGED <<conns, mgr_vars, tgt, h_todo, backend, post_vars, get_route, ext_vars>>

\* initialize(): one turn of the loop over the cloned config list, up to connect()
InitNext ==
    /\ pc["init"] = "init_next"
    /\ IF init_i > Len(config.mcps)
       THEN /\ mgr_lock' = Free
            /\ Goto("init", "done")
            /\ UNCHANGED <<conns, next_conn, tgt, init_i>>
       ELSE IF ~config.mcps[init_i].enabled
       THEN /\ init_i' = init_i + 1
            /\ UNCHANGED <<conns, next_conn, tgt, mgr_lock, pc>>
       ELSE /\ next_conn \in ConnObjs
            /\ conns' = [conns EXCEPT ![next_conn] = NewConnection(config.mcps[init_i])]
            /\ tgt' = [tgt EXCEPT !["init"] = Some(next_conn)]
            /\ next_conn' = next_conn + 1
            /\ Goto("init", "connect")
            /\ UNCHANGED <<mgr_lock, init_i>>
    /\ UNCHANGED <<connections, config, h_todo, backend, post_vars, get_route, ext_vars>>

\* initialize(): self.connections.insert(id, conn)
InitInsert ==
    /\ pc["init"] = "init_insert"
    /\ connections' = [connections EXCEPT ![conns[Conn("init")].config.id] = tgt["init"]]
    /\ init_i' = init_i + 1
    /\ Goto("init", "init_next")
    /\ UNCHANGED <<conns, config, next_conn, mgr_lock, tgt, h_todo, backend, post_vars,
                   get_route, ext_vars>>

\* health_check_cycle with `attempts <= max_reconnect_attempts` for `<`.
health_action_off_by_one(s, cfg) ==
    IF s.state = "Connected" THEN "ping"
    ELSE IF /\ s.state \in {"Error", "Disconnected"}
            /\ cfg.auto_reconnect
            /\ s.config.enabled
            /\ s.reconnect_attempts <= cfg.max_reconnect_attempts
    THEN "reconnect"
    ELSE "skip"

\* health_check_cycle reconnecting whatever is not Connected.
health_action_any_state(s, cfg) ==
    IF s.state = "Connected" THEN "ping"
    ELSE IF /\ cfg.auto_reconnect
            /\ s.config.enabled
            /\ s.reconnect_attempts < cfg.max_reconnect_attempts
    THEN "reconnect"
    ELSE "skip"

\* health_check_cycle: what the cycle does with a supervisor in state s.state
health_action(s, cfg) ==
    IF s.state = "Connected" THEN "ping"
    ELSE IF /\ s.state \in {"Error", "Disconnected"}
            /\ cfg.auto_reconnect
            /\ s.config.enabled
            /\ s.reconnect_attempts < cfg.max_reconnect_attempts
    THEN "reconnect"
    ELSE "skip"

\* start_health_loop: after the sleep the manager lock is taken for the whole cycle
HealthAcquire ==
    /\ pc["health"] = "idle"
    /\ mgr_lock = Free
    /\ mgr_lock' = "health"
    /\ h_todo' = {id \in Ids : connections[id] # None}
    /\ Goto("health", "h_next")
    /\ UNCHANGED <<conns, mgr_vars, tgt, init_i, backend, post_vars, get_route, ext_vars>>

\* health_check_cycle: the next supervisor of the map: get_state, then ping(), or
\* increment_reconnect_attempts and connect(), or nothing
HealthNext ==
    /\ pc["health"] = "h_next"
    /\ h_todo # {}
    /\ \E id \in h_todo :
         LET c == connections[id][1]
             act == health_action(conns[c], config)
         IN /\ h_todo' = h_todo \ {id}
            /\ tgt' = [tgt EXCEPT !["health"] = Some(c)]
            /\ conns' = IF act = "reconnect"
                        THEN [conns EXCEPT ![c] = increment_reconnect_attempts(@)]
                        ELSE conns
            /\ Goto("health", CASE act = "ping" -> "ping"
                                [] act = "reconnect" -> "connect"
                                [] OTHER -> "h_next")
    /\ UNCHANGED <<mgr_vars, mgr_lock, init_i, backend, post_vars, get_route, ext_vars>>

\* start_health_loop: list_statuses, emit, and the lock is dropped at the end of the turn
HealthEmit ==
    /\ pc["health"] = "h_next"
    /\ h_todo = {}
    /\ mgr_lock' = Free
    /\ Goto("health", "idle")
    /\ UNCHANGED <<conns, mgr_vars, tgt, init_i, h_todo, backend, post_vars, get_route, ext_vars>>

\* ------------------------------------------------------------ commands.rs

\* connect_mcp: the Arc is cloned under the lock and the lock dropped before connect()
CmdConnect(id) ==
    /\ pc["cmd"] = "idle"
    /\ mgr_lock = Free
    /\ get_connection(id) # None
    /\ tgt' = [tgt EXCEPT !["cmd"] = get_connection(id)]
    /\ Goto("cmd", "connect")
    /\ UNCHANGED <<conns, mgr_vars, mgr_lock, init_i, h_todo, backend, post_vars, get_route, ext_vars>>

\* disconnect_mcp: the same, before disconnect()
CmdDisconnect(id) ==
    /\ pc["cmd"] = "idle"
    /\ mgr_lock = Free
    /\ get_connection(id) # None
    /\ tgt' = [tgt EXCEPT !["cmd"] = get_connection(id)]
    /\ Goto("cmd", "disc")
    /\ UNCHANGED <<conns, mgr_vars, mgr_lock, init_i, h_todo, backend, post_vars, get_route, ext_vars>>

\* ---------------------------- add_mcp, update_mcp, remove_mcp (commands.rs)
\* Each command takes the manager lock, runs the McpManager method to its end with
\* the lock held, and drops the lock; its task rests at "idle", or at "err" after
\* it has returned Err. The Arc a command holds is dropped when it returns.

Returned == {"idle", "err"}

mgr_frame == <<init_i, h_todo, backend, post_vars, get_route, ext_vars>>

\* Task u is inside a call on supervisor c, through an Arc it cloned from the registry.
Holds(u, c) == tgt[u] = Some(c) /\ pc[u] \notin {"idle", "err", "start", "done"}

\* The Arc task t took out of the registry goes out of scope: the supervisor is
\* dropped unless another task still holds a clone.
DropArc(t) ==
    IF \E u \in Tasks \ {t} : Holds(u, Conn(t))
    THEN conns
    ELSE [conns EXCEPT ![Conn(t)] = NoObject]

\* add_mcp accepting an id that is already registered.
add_rejects_never(id) == FALSE

\* McpManager::add_mcp: self.connections.contains_key(&id)
add_rejects(id) == get_connection(id) # None

\* add_mcp: lock, duplicate check, McpConnection::new, up to connect()
MgrAdd(cfg) ==
    /\ pc["add"] \in Returned
    /\ mgr_lock = Free
    /\ IF add_rejects(cfg.id)
       THEN /\ Goto("add", "err")
            /\ UNCHANGED <<conns, mgr_vars, mgr_lock, tgt>>
       ELSE /\ next_conn \in ConnObjs
            /\ mgr_lock' = "add"
            /\ conns' = [conns EXCEPT ![next_conn] = NewConnection(cfg)]
            /\ next_conn' = next_conn + 1
            /\ tgt' = [tgt EXCEPT !["add"] = Some(next_conn)]
            /\ Goto("add", IF cfg.enabled THEN "connect" ELSE "add_insert")
            /\ UNCHANGED <<connections, config>>
    /\ UNCHANGED mgr_frame

\* add_mcp: connections.insert, config.mcps.push, Ok(id); the lock is dropped
AddInsert ==
    /\ pc["add"] = "add_insert"
    /\ connections' = [connections EXCEPT ![conns[Conn("add")].config.id] = tgt["add"]]
    /\ config' = [config EXCEPT !.mcps = Append(@, conns[Conn("add")].config)]
    /\ mgr_lock' = Free
    /\ tgt' = [tgt EXCEPT !["add"] = None]
    /\ Goto("add", "idle")
    /\ UNCHANGED <<conns, next_conn, mgr_frame>>

\* update_mcp that appends the entry without looking for the id.
update_entry_appends(mcps, cfg) == Append(mcps, cfg)

\* update_mcp: the entry at the first position with the id is replaced, else pushed
update_entry(mcps, cfg) ==
    LET at == {i \in 1..Len(mcps) : mcps[i].id = cfg.id}
    IN IF at = {} THEN Append(mcps, cfg)
       ELSE [mcps EXCEPT ![CHOOSE i \in at : \A j \in at : i <= j] = cfg]

\* update_mcp: lock, connections.remove(&id), up to old_conn.disconnect(); the new
\* supervisor (McpConnection::new has no effect outside it) is the object made here
MgrUpdate(cfg) ==
    /\ pc["update"] \in Returned
    /\ mgr_lock = Free
    /\ next_conn \in ConnObjs
    /\ mgr_lock' = "update"
    /\ conns' = [conns EXCEPT ![next_conn] = NewConnection(cfg)]
    /\ next_conn' = next_conn + 1
    /\ IF get_connection(cfg.id) # None
       THEN /\ connections' = [connections EXCEPT ![cfg.id] = None]
            /\ tgt' = [tgt EXCEPT !["update"] = get_connection(cfg.id)]
            /\ Goto("update", "disc")
       ELSE /\ tgt' = [tgt EXCEPT !["update"] = Some(next_conn)]
            /\ Goto("update", IF cfg.enabled THEN "connect" ELSE "upd_insert")
            /\ UNCHANGED connections
    /\ UNCHANGED <<config, mgr_frame>>

\* update_mcp: the old supervisor is disconnected; on to the new one, up to connect()
UpdNew ==
    /\ pc["update"] = "upd_new"
    /\ tgt' = [tgt EXCEPT !["update"] = Some(next_conn - 1)]
    /\ Goto("update", IF conns[next_conn - 1].config.enabled THEN "connect" ELSE "upd_insert")
    /\ conns' = DropArc("update")
    /\ UNCHANGED <<mgr_vars, mgr_lock, mgr_frame>>

\* update_mcp: connections.insert, the config entry, Ok(()); the lock is dropped
UpdInsert ==
    /\ pc["update"] = "upd_insert"
    /\ connections' = [connections EXCEPT ![conns[Conn("update")].config.id] = tgt["update"]]
    /\ config' = [config EXCEPT !.mcps = update_entry(@, conns[Conn("update")].config)]
    /\ mgr_lock' = Free
    /\ tgt' = [tgt EXCEPT !["update"] = None]
    /\ Goto("update", "idle")
    /\ UNCHANGED <<conns, next_conn, mgr_frame>>

\* remove_mcp: lock, connections.remove(id), up to conn.disconnect()
MgrRemove(id) ==
    /\ pc["remove"] \in Returned
    /\ mgr_lock = Free
    /\ mgr_lock' = "remove"
    /\ IF get_connection(id) # None
       THEN /\ connections' = [connections EXCEPT ![id] = None]
            /\ tgt' = [tgt EXCEPT !["remove"] = get_connection(id)]
            /\ Goto("remove", "disc")
       ELSE /\ tgt' = [tgt EXCEPT !["remove"] = None]
            /\ Goto("remove", "rm_config")
            /\ UNCHANGED connections
    /\ UNCHANGED <<conns, config, next_conn, mgr_frame>>

\* remove_mcp: config.mcps.retain(|m| m.id != id), Ok(()); the lock is dropped.
\* The id is that of the evicted supervisor, or the only id there is.
RmConfig ==
    /\ pc["remove"] = "rm_config"
    /\ LET id == IF tgt["remove"] = None THEN CHOOSE i \in Ids : TRUE
                 ELSE conns[Conn("remove")].config.id
       IN config' = [config EXCEPT !.mcps = SelectSeq(@, LAMBDA m : m.id # id)]
    /\ mgr_lock' = Free
    /\ tgt' = [tgt EXCEPT !["remove"] = None]
    /\ Goto("remove", "idle")
    /\ conns' = IF tgt["remove"] = None THEN conns ELSE DropArc("remove")
    /\ UNCHANGED <<connections, next_conn, mgr_frame>>

\* ------------------------------------------- update_app_config (commands.rs)

\* ConfigManager::validate
validate(cfg) ==
    /\ cfg.proxy_port >= 1024
    /\ cfg.health_check_interval_secs >= 5
    /\ \A i \in 1..Len(cfg.mcps) : cfg.mcps[i].id # ""

\* McpManager::update_config
update_config(old, new) ==
    [old EXCEPT !.proxy_port = new.proxy_port,
                !.health_check_interval_secs = new.health_check_interval_secs,
                !.auto_reconnect = new.auto_reconnect,
                !.max_reconnect_attempts = new.max_reconnect_attempts]

\* update_app_config: validate, then the manager lock; the task holds its argument
CfgCall(new) ==
    /\ pc["cfg"] \in Returned
    /\ IF validate(new)
       THEN /\ mgr_lock = Free
            /\ mgr_lock' = "cfg"
            /\ tgt' = [tgt EXCEPT !["cfg"] = Some(new)]
            /\ Goto("cfg", "cfg_update")
       ELSE /\ Goto("cfg", "err")
            /\ UNCHANGED <<mgr_lock, tgt>>
    /\ UNCHANGED <<conns, mgr_vars, mgr_frame>>

\* update_app_config: mgr.update_config(config), the lock is dropped
CfgUpdate ==
    /\ pc["cfg"] = "cfg_update"
    /\ config' = update_config(config, tgt["cfg"][1])
    /\ mgr_lock' = Free
    /\ tgt' = [tgt EXCEPT !["cfg"] = None]
    /\ Goto("cfg", "cfg_cm")
    /\ UNCHANGED <<conns, connections, next_conn, mgr_frame>>

\* What the steps that take or drop the two locks leave alone.
save_frame == <<conns, mgr_vars, tgt, init_i, h_todo, backend, post_vars, get_route,
                bridge, sse, session>>

\* update_app_config: state.config_manager.lock().await
CfgLockConfigMgr ==
    /\ pc["cfg"] = "cfg_cm"
    /\ cm_lock = Free
    /\ cm_lock' = "cfg"
    /\ Goto("cfg", "cfg_mgr")
    /\ UNCHANGED <<mgr_lock, save_frame>>

\* update_app_config: state.manager.lock().await, the ConfigManager still held
CfgLockMgr ==
    /\ pc["cfg"] = "cfg_mgr"
    /\ mgr_lock = Free
    /\ mgr_lock' = "cfg"
    /\ Goto("cfg", "cfg_save")
    /\ UNCHANGED <<cm_lock, save_frame>>

\* update_app_config: save(&full_config), both guards dropped on return
CfgSave ==
    /\ pc["cfg"] = "cfg_save"
    /\ mgr_lock' = Free
    /\ cm_lock' = Free
    /\ Goto("cfg", "idle")
    /\ UNCHANGED save_frame

\* ----------------------------------------------- persist_config (commands.rs)

\* The commands that end with persist_config(&state): add_mcp, update_mcp,
\* remove_mcp (and set_disabled_items), once their block under the manager lock is
\* over.
PersistTasks == {"add", "update", "remove"}

\* persist_config: state.manager.lock().await, the config is cloned
PersistLockMgr(t) ==
    /\ pc[t] = "idle"
    /\ mgr_lock = Free
    /\ mgr_lock' = t
    /\ Goto(t, "persist_cm")
    /\ UNCHANGED <<cm_lock, save_frame>>

\* persist_config: state.config_manager.lock().await, the manager still held
PersistLockConfigMgr(t) ==
    /\ pc[t] = "persist_cm"
    /\ cm_lock = Free
    /\ cm_lock' = t
    /\ Goto(t, "persist_save")
    /\ UNCHANGED <<mgr_lock, save_frame>>

\* persist_config: config_mgr.save(&config), both guards dropped on return
PersistSave(t) ==
    /\ pc[t] = "persist_save"
    /\ mgr_lock' = Free
    /\ cm_lock' = Free
    /\ Goto(t, "idle")
    /\ UNCHANGED save_frame

\* -------------------------------------------- proxy/server.rs, the GET routes

GetRoutes == {"health", "mcps"}

\* GET /health or GET /mcps arrives; the handler's first await is manager.lock()
GetArrive(route) ==
    /\ pc["get"] = "idle"
    /\ get_route' = route
    /\ Goto("get", "g_lock")
    /\ UNCHANGED <<conns, mgr_vars, mgr_lock, tgt, init_i, h_todo, backend, post_vars,
                   ext_vars>>

\* health_check / list_mcps: lock, list_statuses, respond (the guard dropped on return)
GetServe ==
    /\ pc["get"] = "g_lock"
    /\ mgr_lock = Free
    /\ Goto("get", "idle")
    /\ UNCHANGED <<conns, mgr_vars, mgr_lock, tgt, init_i, h_todo, backend, post_vars,
                   get_route, ext_vars>>

\* streamable_http_get without the state check.
streamable_http_get_no_state_check(id) ==
    IF get_connection(id) = None THEN 404 ELSE 405

\* streamable_http_get: the status GET /mcp/:id returns
streamable_http_get(id) ==
    IF get_connection(id) = None THEN 404
    ELSE IF conns[get_connection(id)[1]].state # "Connected" THEN 503
    ELSE 405

\* GET /mcp/:id: lock, get_connection, get_state, respond (the guard dropped on return)
McpGetServe(id) ==
    /\ pc["get"] = "g_lock"
    /\ get_route = "mcp"
    /\ mgr_lock = Free
    /\ http_resp' = [status |-> streamable_http_get(id), batch |-> FALSE, body |-> <<>>]
    /\ Goto("get", "idle")
    /\ UNCHANGED <<conns, mgr_vars, mgr_lock, tgt, init_i, h_todo, backend, body, post_i,
                   responses, disabled, sent, get_route, ext_vars>>

\* ----------------------------------------- McpConnection::execute_request

\* The methods execute_request matches on.
Whitelist ==
    {"ping", "tools/list", "tools/call", "resources/list", "resources/read",
     "resources/templates/list", "prompts/list", "prompts/get",
     "completion/complete", "logging/setLevel"}

\* The arms that deserialize params before the call.
NeedsParams ==
    {"tools/call", "resources/read", "prompts/get", "completion/complete",
     "logging/setLevel"}

\* An anyhow error is the text of its outermost message, in pieces.
NotConnectedError == <<"Not connected">>
MethodNotFoundError(method) == <<"Method not found", method>>
InvalidParamsError(method) == <<"Invalid", method, "params">>
CallFailedError(method) == <<method, "failed">>

\* execute_request up to the transport call: an error, or None when the call is made
execute_check(s, method, params_ok) ==
    IF s.service = None THEN Some(NotConnectedError)
    ELSE IF method \notin Whitelist THEN Some(MethodNotFoundError(method))
    ELSE IF method \in NeedsParams /\ ~params_ok THEN Some(InvalidParamsError(method))
    ELSE None

\* The message a call puts on the transport ("ping" is sent as tools/list).
wire_method(method) == IF method = "ping" THEN "tools/list" ELSE method

\* The value execute_request returns for a successful call; `listed` is what the
\* backend listed (tools for tools/list, resources for resources/list).
execute_result(method, listed) ==
    CASE method = "tools/list" -> [kind |-> "tools", items |-> listed, protocolVersion |-> ""]
      [] method = "resources/list" ->
             [kind |-> "resources", items |-> listed, protocolVersion |-> ""]
      [] method \in {"ping", "logging/setLevel"} ->
             [kind |-> "empty", items |-> <<>>, protocolVersion |-> ""]
      [] OTHER -> [kind |-> "value", items |-> <<>>, protocolVersion |-> ""]

\* ------------------------------------ proxy/server.rs, POST /mcp/:id

NoId == "<no id>"
NoMethod == "<no method>"
JsonIds == {"i1", "i2"}

\* McpManager::get_disabled_items
get_disabled_items(id) ==
    LET at == {i \in 1..Len(config.mcps) : config.mcps[i].id = id}
    IN IF at = {} THEN <<{}, {}>>
       ELSE LET m == config.mcps[CHOOSE i \in at : \A j \in at : i <= j]
            IN <<m.disabled_tools, m.disabled_resources>>

\* McpManager::set_disabled_items
set_disabled_items(cfg, id, disabled_tools, disabled_resources) ==
    [cfg EXCEPT !.mcps =
        [i \in 1..Len(cfg.mcps) |->
            IF cfg.mcps[i].id = id
            THEN [cfg.mcps[i] EXCEPT !.disabled_tools = disabled_tools,
                                     !.disabled_resources = disabled_resources]
            ELSE cfg.mcps[i]]]

\* handle_single_request: request.get("method")?.as_str()? and the id.is_none() return
returns_none(e) == e.method = NoMethod \/ e.id = NoId

\* the initialize arm answering without the request's id.
initialize_response_null_id(e) ==
    [id |-> NoId, ok |-> TRUE, code |-> 0, message |-> <<>>,
     result |-> [kind |-> "initialize", items |-> <<>>, protocolVersion |-> "2025-03-26"]]

\* the initialize arm of handle_single_request
initialize_response(e) ==
    [id |-> e.id, ok |-> TRUE, code |-> 0, message |-> <<>>,
     result |-> [kind |-> "initialize", items |-> <<>>, protocolVersion |-> "2025-03-26"]]

\* handle_single_request without the retain() on resources/list results.
filter_result_tools_only(method, result, dis) ==
    IF method = "tools/list"
    THEN [result EXCEPT !.items = SelectSeq(@, LAMBDA name : name \notin dis[1])]
    ELSE result

\* the retain() calls of handle_single_request
filter_result(method, result, dis) ==
    IF method = "tools/list"
    THEN [result EXCEPT !.items = SelectSeq(@, LAMBDA name : name \notin dis[1])]
    ELSE IF method = "resources/list"
    THEN [result EXCEPT !.items = SelectSeq(@, LAMBDA uri : uri \notin dis[2])]
    ELSE result

\* the Ok arm of handle_single_request
ok_response(e, result, dis) ==
    [id |-> e.id, ok |-> TRUE, code |-> 0, message |-> <<>>,
     result |-> filter_result(e.method, result, dis)]

\* error_code with a marker that no error message contains.
error_code_no_match(err) ==
    IF \E i \in 1..Len(err) : err[i] = "method not found"
    THEN MethodNotFoundCode
    ELSE ServerErrorCode

\* e.to_string().contains("Method not found")
error_code(err) ==
    IF \E i \in 1..Len(err) : err[i] = "Method not found"
    THEN MethodNotFoundCode
    ELSE ServerErrorCode

\* the Err arm of handle_single_request
err_response(e, err) ==
    [id |-> e.id, ok |-> FALSE, code |-> error_code(err), message |-> err,
     result |-> [kind |-> "none", items |-> <<>>, protocolVersion |-> ""]]

NoResponse == [status |-> 0, batch |-> FALSE, body |-> <<>>]

\* streamable_http_post without the responses.is_empty() return.
http_response_no_202(b, resps) ==
    IF resps = <<>> /\ ~b.batch
    THEN [status |-> 202, batch |-> FALSE, body |-> <<>>]
    ELSE [status |-> 200, batch |-> b.batch, body |-> resps]

\* streamable_http_post: the response built from the collected responses
http_response(b, resps) ==
    IF resps = <<>>
    THEN [status |-> 202, batch |-> FALSE, body |-> <<>>]
    ELSE [status |-> 200, batch |-> b.batch, body |-> resps]

\* What a list call of the backend may return.
ListedBy(method) ==
    IF method = "tools/list"
    THEN {<<>>, <<"ta", "tb">>, <<"tb", "ta">>}
    ELSE IF method = "resources/list"
    THEN {<<>>, <<"ra", "rb">>}
    ELSE {<<>>}

\* streamable_http_post: lock, get_connection (404 when absent), get_disabled_items
PostStart(id) ==
    /\ pc["post"] = "idle"
    /\ mgr_lock = Free
    /\ post_i' = 1
    /\ responses' = <<>>
    /\ sent' = <<>>
    /\ IF get_connection(id) = None
       THEN /\ http_resp' = [status |-> 404, batch |-> FALSE, body |-> <<>>]
            /\ UNCHANGED <<mgr_lock, pc, tgt, disabled>>
       ELSE /\ http_resp' = NoResponse
            /\ mgr_lock' = "post"
            /\ tgt' = [tgt EXCEPT !["post"] = get_connection(id)]
            /\ disabled' = get_disabled_items(id)
            /\ Goto("post", "p_elem")
    /\ UNCHANGED <<conns, mgr_vars, init_i, h_todo, backend, body, get_route, ext_vars>>

\* handle_single_request up to the transport call of execute_request
PostElem ==
    /\ pc["post"] = "p_elem"
    /\ post_i <= Len(body.elems)
    /\ LET e == body.elems[post_i]
           s == conns[Conn("post")]
       IN IF returns_none(e)
          THEN /\ post_i' = post_i + 1
               /\ UNCHANGED <<conns, responses, sent, pc>>
          ELSE IF e.method = "initialize"
          THEN /\ responses' = Append(responses, initialize_response(e))
               /\ post_i' = post_i + 1
               /\ UNCHANGED <<conns, sent, pc>>
          ELSE /\ s.service_lock = Free
               /\ IF execute_check(s, e.method, e.params_ok) # None
                  THEN /\ responses' =
                            Append(responses,
                                   err_response(e, execute_check(s, e.method, e.params_ok)[1]))
                       /\ post_i' = post_i + 1
                       /\ UNCHANGED <<conns, sent, pc>>
                  ELSE /\ conns' = [conns EXCEPT ![Conn("post")].service_lock = "post"]
                       /\ sent' = Append(sent, wire_method(e.method))
                       /\ Goto("post", "p_await")
                       /\ UNCHANGED <<responses, post_i>>
    /\ UNCHANGED <<mgr_vars, mgr_lock, tgt, init_i, h_todo, backend, body, disabled,
                   http_resp, get_route, ext_vars>>

\* execute_request: the transport call returns; the service lock is dropped
PostReply ==
    /\ pc["post"] = "p_await"
    /\ LET e == body.elems[post_i]
           s == conns[Conn("post")]
       IN \/ /\ s.service = Some("live")
             /\ \E listed \in ListedBy(e.method) :
                  responses' = Append(responses,
                                      ok_response(e, execute_result(e.method, listed), disabled))
          \/ responses' = Append(responses, err_response(e, CallFailedError(e.method)))
    /\ conns' = [conns EXCEPT ![Conn("post")].service_lock = Free]
    /\ post_i' = post_i + 1
    /\ Goto("post", "p_elem")
    /\ UNCHANGED <<mgr_vars, mgr_lock, tgt, init_i, h_todo, backend, body, disabled,
                   http_resp, sent, get_route, ext_vars>>

\* streamable_http_post: every element handled; respond and drop the manager lock
PostFinish ==
    /\ pc["post"] = "p_elem"
    /\ post_i > Len(body.elems)
    /\ http_resp' = http_response(body, responses)
    /\ mgr_lock' = Free
    /\ Goto("post", "idle")
    /\ UNCHANGED <<conns, mgr_vars, tgt, init_i, h_todo, backend, body, post_i, responses,
                   disabled, sent, get_route, ext_vars>>

\* set_disabled_items that also empties the supervisor's capability caches.
CmdSetDisabledItemsClearsCaches(id, disabled_tools, disabled_resources) ==
    /\ pc["cmd"] = "idle"
    /\ mgr_lock = Free
    /\ \E i \in 1..Len(config.mcps) : config.mcps[i].id = id
    /\ config' = set_disabled_items(config, id, disabled_tools, disabled_resources)
    /\ conns' = [c \in ConnObjs |->
                   IF conns[c].config.id = id
                   THEN [conns[c] EXCEPT !.tools = <<>>, !.resources = <<>>]
                   ELSE conns[c]]
    /\ UNCHANGED <<connections, next_conn, mgr_lock, pc, tgt, init_i, h_todo,
                   backend, post_vars, get_route, ext_vars>>

\* set_disabled_items (commands.rs): the config entry is rewritten under the lock
CmdSetDisabledItems(id, disabled_tools, disabled_resources) ==
    /\ pc["cmd"] = "idle"
    /\ mgr_lock = Free
    /\ \E i \in 1..Len(config.mcps) : config.mcps[i].id = id
    /\ config' = set_disabled_items(config, id, disabled_tools, disabled_resources)
    /\ UNCHANGED <<conns, connections, next_conn, mgr_lock, pc, tgt, init_i, h_todo,
                   backend, post_vars, get_route, ext_vars>>

\* ------------------------------------------------- bin/mcp-hub-bridge.rs

core_vars == <<conns, mgr_vars, mgr_lock, pc, tgt, init_i, h_todo, backend, post_vars,
               get_route, cm_lock>>

\* A line of stdin: empty, not JSON, or a JSON value with or without an "id".
BridgeLines ==
    {[kind |-> "empty", id |-> NoId], [kind |-> "garbage", id |-> NoId]}
    \cup {[kind |-> "json", id |-> i] : i \in {NoId} \cup JsonIds}

\* What client.post(url).send() and the reading of the body come to: the proxy is
\* unreachable, or it answers with a status and a body that can be read or not.
PostOutcomes ==
    {[kind |-> "unreachable", status |-> 0, body |-> "", body_ok |-> FALSE]}
    \cup {[kind |-> "response", status |-> st, body |-> b, body_ok |-> ok] :
            st \in {200, 202, 204, 404, 500}, b \in {"", "r1"}, ok \in BOOLEAN}

\* The JSON-RPC error the bridge synthesizes, written with its newline.
BridgeError(id, message) ==
    [kind |-> "error", id |-> id, code |-> -32000, message |-> message, text |-> "",
     newline |-> TRUE]

\* A response body written through, with its newline.
BridgeBody(text) ==
    [kind |-> "body", id |-> NoId, code |-> 0, message |-> <<>>, text |-> text,
     newline |-> TRUE]

\* handle_line writing the body of every response that is not a 202.
handle_line_body_always(line, o) ==
    IF o.kind = "unreachable"
    THEN IF line.id # NoId THEN <<BridgeError(line.id, <<"proxy unreachable">>)>> ELSE <<>>
    ELSE IF o.status = 202 THEN <<>>
    ELSE IF o.body_ok THEN <<BridgeBody(o.body)>> ELSE <<>>

\* handle_line after serde_json::from_str succeeded: what it writes to stdout
handle_line(line, o) ==
    IF o.kind = "unreachable"
    THEN IF line.id # NoId THEN <<BridgeError(line.id, <<"proxy unreachable">>)>> ELSE <<>>
    ELSE IF o.status = 202 THEN <<>>
    ELSE IF o.status \notin 200..299
    THEN IF line.id # NoId
         THEN <<BridgeError(line.id, <<"HTTP", o.status, IF o.body_ok THEN o.body ELSE "">>)>>
         ELSE <<>>
    ELSE IF o.body_ok THEN <<BridgeBody(o.body)>> ELSE <<>>

\* main: lines.next_line() gives a line; an empty one is skipped, one that is not
\* JSON makes handle_line return Err at once, any other is POSTed
BridgeReadLine(line) ==
    /\ bridge.pc = "read"
    /\ bridge.n < MaxLines
    /\ bridge' = [bridge EXCEPT !.n = @ + 1, !.line = line, !.outcome = Off,
                                !.pc = IF line.kind = "json" THEN "post" ELSE "read"]
    /\ UNCHANGED <<core_vars, sse, session>>

\* handle_line: the POST ends, the reply (if any) is written and flushed
BridgeHandleLine(o) ==
    /\ bridge.pc = "post"
    /\ bridge' = [bridge EXCEPT !.outcome = o,
                                !.stdout = @ \o handle_line(bridge.line, o),
                                !.pc = "read"]
    /\ UNCHANGED <<core_vars, sse, session>>

\* main: stdin is closed (Ok(None)); DELETE is sent and the process exits
BridgeEof ==
    /\ bridge.pc = "read"
    /\ bridge' = [bridge EXCEPT !.pc = "exit"]
    /\ UNCHANGED <<core_vars, sse, session>>

\* ------------------------------------------ mcp/legacy_sse.rs, the worker

\* The data of an endpoint event: the path outbound messages are POSTed to.
EndpointUrls == {"/messages?s=1", "/messages?s=2"}

\* An event of the SSE stream, as sse_stream.next() gives it: an endpoint event with
\* data, a message event whose data parses as a JSON-RPC message (the response to
\* request id, or a notification when id = 0), a message event whose data does not
\* parse, an event of another type, a read error, the end of the stream.
SseEvents ==
    {[type |-> t, id |-> 0, url |-> ""] : t \in {"garbage", "other", "error", "end"}}
    \cup {[type |-> "endpoint", id |-> 0, url |-> u] : u \in EndpointUrls}
    \cup {[type |-> "message", id |-> i, url |-> ""] : i \in 0..MaxReqs}

\* What client.post(messages_url).send() comes to.
SsePostOutcomes == {"2xx", "non2xx", "failed"}

\* The worker returns Err(reason): the transport is closed, and the requests the
\* handler still waits on fail with it.
SseQuit(s, reason) ==
    [s EXCEPT !.pc = "quit", !.quit = reason, !.reader = "ended",
              !.failed = @ \cup s.inflight, !.inflight = {}]

\* Step 2 taking the end of the stream for the endpoint event.
wait_endpoint_ignores_end(s, ev) ==
    CASE ev.type = "endpoint" -> [s EXCEPT !.endpoint = TRUE, !.messages_url = ev.url,
                                           !.pc = "recv_init"]
      [] ev.type = "error" -> SseQuit(s, "StreamEnded")
      [] ev.type = "end" -> [s EXCEPT !.pc = "recv_init"]
      [] OTHER -> s

\* run, step 2: one turn of the loop that waits for the endpoint event
wait_endpoint(s, ev) ==
    CASE ev.type = "endpoint" -> [s EXCEPT !.endpoint = TRUE, !.messages_url = ev.url,
                                           !.pc = "recv_init"]
      [] ev.type = "error" -> SseQuit(s, "StreamEnded")
      [] ev.type = "end" -> SseQuit(s, "NoEndpoint")
      [] OTHER -> s

\* read_next_jsonrpc: one turn of its loop; the message goes to the handler
read_next_jsonrpc(s, ev) ==
    CASE ev.type = "message" -> [s EXCEPT !.pc = "recv_notif"]
      [] ev.type = "garbage" -> SseQuit(s, "Json")
      [] ev.type \in {"error", "end"} -> SseQuit(s, "StreamEnded")
      [] OTHER -> s

\* The reader task taking a later endpoint event for a new POST endpoint.
sse_reader_follows_endpoint(s, ev) ==
    CASE ev.type = "message" -> [s EXCEPT !.sse_rx = Append(@, ev.id)]
      [] ev.type = "endpoint" -> [s EXCEPT !.messages_url = ev.url]
      [] ev.type \in {"error", "end"} -> [s EXCEPT !.reader = "ended"]
      [] OTHER -> s

\* The spawned SSE reader task: one turn of its loop
sse_reader(s, ev) ==
    CASE ev.type = "message" -> [s EXCEPT !.sse_rx = Append(@, ev.id)]
      [] ev.type \in {"error", "end"} -> [s EXCEPT !.reader = "ended"]
      [] OTHER -> s

\* An event that ends the stream may always come; any other one while the bound on
\* the events of a run allows it.
SseTake(ev) ==
    /\ ev.type \notin {"error", "end"} => sse.n < MaxEvents
    /\ ev.type = "message" /\ ev.id # 0 => ev.id \in sse.inflight

\* run, step 1: the GET of the stream succeeds with a 2xx, or open fails
SseOpen(ok) ==
    /\ sse.pc = "get"
    /\ sse' = IF ok THEN [sse EXCEPT !.pc = "wait_endpoint"] ELSE SseQuit(sse, "Open")
    /\ UNCHANGED <<core_vars, bridge, session>>

SseWaitEndpoint(ev) ==
    /\ sse.pc = "wait_endpoint"
    /\ SseTake(ev)
    /\ sse' = [wait_endpoint(sse, ev) EXCEPT !.n = @ + 1, !.ev = ev.type,
                                              !.ev_url = ev.url]
    /\ UNCHANGED <<core_vars, bridge, session>>

\* run, steps 3 and 4: recv_from_handler gives the initialize request, then the
\* initialized notification
SseRecvFromHandler ==
    /\ sse.pc \in {"recv_init", "recv_notif"}
    /\ sse' = [sse EXCEPT !.out = IF sse.pc = "recv_init" THEN "initialize"
                                  ELSE "initialized",
                          !.pc = IF sse.pc = "recv_init" THEN "post_init"
                                 ELSE "post_notif"]
    /\ UNCHANGED <<core_vars, bridge, session>>

\* run, step 3: the POST of initialize; Ok(_resp) whatever the status
SsePostInit(o) ==
    /\ sse.pc = "post_init"
    /\ LET s == [sse EXCEPT !.posted = Append(@, [msg |-> sse.out, url |-> sse.messages_url,
                                               outcome |-> o])]
       IN sse' = IF o = "failed" THEN SseQuit(s, "ChannelClosed")
                 ELSE [s EXCEPT !.pc = "read_init"]
    /\ UNCHANGED <<core_vars, bridge, session>>

SseReadInit(ev) ==
    /\ sse.pc = "read_init"
    /\ SseTake(ev)
    /\ sse' = [read_next_jsonrpc(sse, ev) EXCEPT !.n = @ + 1, !.ev = ev.type,
                                              !.ev_url = ev.url]
    /\ UNCHANGED <<core_vars, bridge, session>>

\* run, step 4: the POST of the initialized notification, then the reader task is
\* spawned and the main loop entered
SsePostNotif(o) ==
    /\ sse.pc = "post_notif"
    /\ LET s == [sse EXCEPT !.posted = Append(@, [msg |-> sse.out, url |-> sse.messages_url,
                                               outcome |-> o])]
       IN sse' = IF o = "failed" THEN SseQuit(s, "Reqwest")
                 ELSE [s EXCEPT !.pc = "steady", !.reader = "running"]
    /\ UNCHANGED <<core_vars, bridge, session>>

SseReader(ev) ==
    /\ sse.reader = "running"
    /\ SseTake(ev)
    /\ sse' = [sse_reader(sse, ev) EXCEPT !.n = @ + 1, !.ev = ev.type,
                                              !.ev_url = ev.url]
    /\ UNCHANGED <<core_vars, bridge, session>>

\* main loop, recv_from_handler: the handler sends request id
SseRecvRequest(id) ==
    /\ sse.pc = "steady"
    /\ id \notin sse.asked
    /\ sse' = [sse EXCEPT !.out = id, !.asked = @ \cup {id}, !.pc = "post", !.ev = "none"]
    /\ UNCHANGED <<core_vars, bridge, session>>

\* main loop: the POST of the request ends; the responder gets Ok(()) for a 2xx and
\* Err for any other status and for a failed send, and the loop goes on
SsePost(o) ==
    /\ sse.pc = "post"
    /\ sse' = [sse EXCEPT !.posted = Append(@, [msg |-> sse.out, url |-> sse.messages_url,
                                               outcome |-> o]),
                          !.inflight = IF o = "2xx" THEN @ \cup {sse.out} ELSE @,
                          !.send_err = IF o = "2xx" THEN @ ELSE @ \cup {sse.out},
                          !.ev = IF o = "2xx" THEN "none" ELSE o,
                          !.pc = "steady"]
    /\ UNCHANGED <<core_vars, bridge, session>>

\* main loop, sse_rx.recv() gives a message: it goes to the handler
SseDeliver ==
    /\ sse.pc = "steady"
    /\ sse.sse_rx # <<>>
    /\ sse' = [sse EXCEPT !.sse_rx = Tail(@),
                          !.inflight = @ \ {Head(sse.sse_rx)},
                          !.answered = @ \cup ({Head(sse.sse_rx)} \cap sse.inflight),
                          !.ev = "none"]
    /\ UNCHANGED <<core_vars, bridge, session>>

\* main loop, sse_rx.recv() gives None: the reader task has ended
SseReaderGone ==
    /\ sse.pc = "steady"
    /\ sse.reader = "ended"
    /\ sse.sse_rx = <<>>
    /\ sse' = SseQuit(sse, "StreamEnded")
    /\ UNCHANGED <<core_vars, bridge, session>>

\* ct.cancelled() in one of the select! loops
SseCancel ==
    /\ sse.pc \in {"wait_endpoint", "read_init", "steady"}
    /\ sse' = [SseQuit(sse, "Cancelled") EXCEPT !.ev = "cancel"]
    /\ UNCHANGED <<core_vars, bridge, session>>

\* ------------------------- GracefulHttpClient::delete_session (connection.rs)

\* Session ids the backend may have given, and the bearer tokens of a configuration
\* (NoToken: none).
SessionIds == {"s1", "s2", "s3"}
NoToken == "<none>"
AuthTokens == {NoToken, "t1", "t2"}

\* Statuses a server answers DELETE with; 0 stands for a request that got no answer.
DeleteStatuses == {200, 202, 204, 301, 400, 401, 403, 404, 405, 500, 502, 503}
NoStatus == 0

NoRequest == [method |-> "none", session_header |-> "", bearer |-> NoToken]

\* delete_session failing on every status it does not name benign.
delete_session_strict(st) ==
    IF st \in 200..299 \/ st = 405 THEN [result |-> "Ok", log |-> "none"]
    ELSE IF st \in {404, 400} THEN [result |-> "Ok", log |-> "debug"]
    ELSE [result |-> "Err", log |-> "warn"]

\* delete_session once the response is there: what it returns and what it logs
delete_session(st) ==
    IF st \in 200..299 \/ st = 405 THEN [result |-> "Ok", log |-> "none"]
    ELSE IF st \in {404, 400} THEN [result |-> "Ok", log |-> "debug"]
    ELSE [result |-> "Ok", log |-> "warn"]

\* delete_session: the DELETE request is built and sent
SessionDeleteSend ==
    /\ session.pc = "open"
    /\ session' = [session EXCEPT
                     !.pc = "deleting",
                     !.request = [method |-> "DELETE", session_header |-> session.id,
                                  bearer |-> session.auth_token]]
    /\ UNCHANGED <<core_vars, bridge, sse>>

\* delete_session: send().await ends, with a response or with a reqwest error
SessionDeleteAnswer(st) ==
    /\ session.pc = "deleting"
    /\ session' = IF st = NoStatus
                  THEN [session EXCEPT !.pc = "closed", !.result = "Err"]
                  ELSE [session EXCEPT !.pc = "closed", !.status = st,
                                       !.result = delete_session(st).result,
                                       !.log = delete_session(st).log]
    /\ UNCHANGED <<core_vars, bridge, sse>>

\* ------------------------------------------------------- initial states

\* AppConfig (the fields the core reads)
AppConfig(auto_reconnect, mcps) ==
    [proxy_port |-> DefaultProxyPort,
     health_check_interval_secs |-> DefaultHealthInterval,
     auto_reconnect |-> auto_reconnect,
     connection_timeout_secs |-> DefaultConnectionTimeout,
     max_reconnect_attempts |-> MaxAttempts,
     mcps |-> mcps]

\* What the backends list at connect time in the runs of Spec.
ListedAtConnect == [tools |-> <<"ta", "tb">>, resources |-> <<"ra">>]

Backend(mode) == [mode |-> mode, tools |-> ListedAtConnect.tools,
                  resources |-> ListedAtConnect.resources]

\* A request element: its id (or none), its method (or none, or not a string), and
\* whether its params deserialize for the method.
Request(id, method, params_ok) == [id |-> id, method |-> method, params_ok |-> params_ok]

\* The body posted in the runs of Spec: one tools/call request.
SimpleBodies == {[batch |-> FALSE, elems |-> <<Request("i1", "tools/call", TRUE)>>]}

\* The program as run() leaves it: the manager built from the loaded config, nothing
\* registered yet, the initialisation task, the health loop and the proxy spawned.
Init ==
    /\ conns = [c \in ConnObjs |-> NoObject]
    /\ connections = [id \in Ids |-> None]
    /\ \E auto \in BOOLEAN, en \in BOOLEAN :
         config = AppConfig(auto, <<ServerConfig("a", en, {}, {})>>)
    /\ next_conn = 1
    /\ mgr_lock = Free
    /\ pc = [t \in Tasks |-> IF t = "init" THEN "start" ELSE "idle"]
    /\ tgt = [t \in Tasks |-> None]
    /\ init_i = 1
    /\ h_todo = {}
    /\ backend \in [Ids -> {Backend("up"), Backend("dead")}]
    /\ body \in SimpleBodies
    /\ post_i = 1
    /\ responses = <<>>
    /\ disabled = <<{}, {}>>
    /\ http_resp = NoResponse
    /\ sent = <<>>
    /\ get_route = "health"
    /\ ExtOff

SupTasks == {"init", "health", "cmd"}

Supervisor(t) ==
    \/ ConnectBegin(t)
    \/ ConnectOpenOk(t)
    \/ ConnectOpenFail(t)
    \/ ConnectSetError(t)
    \/ ConnectFetchLock(t)
    \/ ConnectFetchDone(t)
    \/ ConnectSetConnected(t)
    \/ DisconnectTake(t)
    \/ DisconnectClear(t)
    \/ DisconnectSetState(t)
    \/ PingLock(t)
    \/ PingDone(t)

Next ==
    \/ InitAcquire
    \/ InitNext
    \/ InitInsert
    \/ HealthAcquire
    \/ HealthNext
    \/ HealthEmit
    \/ \E id \in Ids : CmdConnect(id)
    \/ \E id \in Ids : CmdDisconnect(id)
    \/ \E t \in SupTasks : Supervisor(t)
    \/ \E route \in GetRoutes : GetArrive(route)
    \/ GetServe
    \/ \E id \in Ids : PostStart(id)
    \/ PostElem
    \/ PostReply
    \/ PostFinish
    \/ \E id \in Ids : BackendDown(id)
    \/ \E id \in Ids : BackendUp(id)

Spec == Init /\ [][Next]_vars

\* ------------------------------------------- the gateway's POST on its own

\* Methods of the posted elements: none (or not a string), the gateway's own
\* initialize, whitelisted ones with and without params, and one outside the whitelist.
PostMethods ==
    {NoMethod, "initialize", "ping", "tools/list", "resources/list", "tools/call",
     "nope/zzz"}

ReqElems ==
    {Request(id, m, TRUE) : id \in JsonIds \cup {NoId}, m \in PostMethods}
    \cup {Request(id, "tools/call", FALSE) : id \in JsonIds \cup {NoId}}

\* The elements batches are built from: a notification, an element with an id and
\* no method, and requests under two ids.
BatchElems ==
    {Request(NoId, "tools/list", TRUE), Request("i1", NoMethod, TRUE),
     Request("i1", "initialize", TRUE), Request("i1", "tools/list", TRUE),
     Request("i1", "tools/call", TRUE), Request("i1", "nope/zzz", TRUE),
     Request("i2", "tools/list", TRUE), Request("i2", "resources/list", TRUE)}

\* Every body: one object, or an array of at most MaxBatch elements.
AllBodies ==
    {[batch |-> FALSE, elems |-> <<e>>] : e \in ReqElems}
    \cup {[batch |-> TRUE, elems |-> es] :
            es \in UNION {[1..k -> BatchElems] : k \in 0..MaxBatch}}

\* The supervisor as initialize() leaves it after a connect() that succeeded ...
ConnectedSupervisor(cfg) ==
    set_state(fetch_capabilities([NewConnection(cfg) EXCEPT !.service = Some("live")],
                                 TRUE, TRUE, Backend("up")),
              "Connected")

\* ... and after a connect() that failed.
FailedSupervisor(cfg) == connect_failed(set_state(NewConnection(cfg), "Connecting"))

\* ... after a disconnect() of the connected one, and inside a connect() that has
\* not opened the transport yet.
DisconnectedSupervisor(cfg) == disconnect(ConnectedSupervisor(cfg))
ConnectingSupervisor(cfg) == set_state(NewConnection(cfg), "Connecting")

\* The supervisors the POST handler meets.
PostSupervisors(cfg) ==
    {ConnectedSupervisor(cfg), FailedSupervisor(cfg), DisconnectedSupervisor(cfg),
     ConnectingSupervisor(cfg)}

\* The program after initialisation, with no task but the POST handler, the
\* set_disabled_items command and the backend going down.
InitPost ==
    /\ \E en \in BOOLEAN :
         /\ config = AppConfig(TRUE, <<ServerConfig("a", en, {}, {})>>)
         /\ IF en
            THEN /\ conns \in {[c \in ConnObjs |->
                                  IF c = 1 THEN sup ELSE NoObject] :
                               sup \in PostSupervisors(config.mcps[1])}
                 /\ connections = [id \in Ids |-> IF id = "a" THEN Some(1) ELSE None]
                 /\ next_conn = 2
            ELSE /\ conns = [c \in ConnObjs |-> NoObject]
                 /\ connections = [id \in Ids |-> None]
                 /\ next_conn = 1
    /\ mgr_lock = Free
    /\ pc = [t \in Tasks |-> IF t = "init" THEN "done" ELSE "idle"]
    /\ tgt = [t \in Tasks |-> None]
    /\ init_i = 2
    /\ h_todo = {}
    /\ backend = [id \in Ids |-> Backend("up")]
    /\ body \in AllBodies
    /\ post_i = 1
    /\ responses = <<>>
    /\ disabled = <<{}, {}>>
    /\ http_resp = NoResponse
    /\ sent = <<>>
    /\ get_route = "health"
    /\ ExtOff

NextPost ==
    \/ \E id \in Ids : PostStart(id)
    \/ PostElem
    \/ PostReply
    \/ PostFinish
    \/ \E id \in Ids, dt \in {{}, {"tb"}}, dr \in {{}, {"ra"}} :
         CmdSetDisabledItems(id, dt, dr)
    \/ \E id \in Ids : BackendDown(id)

SpecPost == InitPost /\ [][NextPost]_vars

\* --------------------------------------------- the health loop on its own

\* The program after initialisation with the one backend enabled and no client or
\* user acting: only the health loop runs, and the backend goes down and comes back.
InitHealth ==
    /\ \E auto \in BOOLEAN : config = AppConfig(auto, <<ServerConfig("a", TRUE, {}, {})>>)
    /\ conns \in {[c \in ConnObjs |-> IF c = 1 THEN sup ELSE NoObject] :
                    sup \in {ConnectedSupervisor(config.mcps[1]),
                             FailedSupervisor(config.mcps[1])}}
    /\ connections = [id \in Ids |-> IF id = "a" THEN Some(1) ELSE None]
    /\ next_conn = 2
    /\ mgr_lock = Free
    /\ pc = [t \in Tasks |-> IF t = "init" THEN "done" ELSE "idle"]
    /\ tgt = [t \in Tasks |-> None]
    /\ init_i = 2
    /\ h_todo = {}
    /\ backend = [id \in Ids |-> Backend("up")]
    /\ body \in SimpleBodies
    /\ post_i = 1
    /\ responses = <<>>
    /\ disabled = <<{}, {}>>
    /\ http_resp = NoResponse
    /\ sent = <<>>
    /\ get_route = "health"
    /\ ExtOff

\* start_health_loop: the steps of the spawned task
HealthLoop ==
    \/ HealthAcquire
    \/ HealthNext
    \/ HealthEmit
    \/ PingLock("health")
    \/ PingDone("health")
    \/ ConnectBegin("health")
    \/ ConnectOpenOk("health")
    \/ ConnectOpenFail("health")
    \/ ConnectSetError("health")
    \/ ConnectFetchLock("health")
    \/ ConnectFetchDone("health")
    \/ ConnectSetConnected("health")

NextHealth ==
    \/ HealthLoop
    \/ \E id \in Ids : BackendDown(id)
    \/ \E id \in Ids : BackendUp(id)

\* The runtime schedules the spawned task whenever it can run, and every call it
\* awaits is answered or fails.
SpecHealth == InitHealth /\ [][NextHealth]_vars /\ WF_vars(HealthLoop)

\* ------------------------------------- the manager's commands on their own

\* The backend lists a valid config can hold: validate() asks for non-empty ids and
\* names and a command or url, so two entries may carry the same id.
MgrConfigLists ==
    UNION {[1..k -> {ServerConfig("a", en, {}, {}) : en \in BOOLEAN}] : k \in 0..2}

\* The configs add_mcp and update_mcp are called with: those of update_mcp differ
\* from every entry of the initial list and from what add_mcp is given.
AddConfigs == {ServerConfig("a", en, {}, {}) : en \in BOOLEAN}

UpdateConfigs == {ServerConfig("a", en, {"ta"}, {}) : en \in BOOLEAN}

\* The program as run() leaves it, with a backend that is up or down for the whole
\* run, the initialisation task, and the user's commands; no health loop, no client.
\* connect_mcp or disconnect_mcp is called once in a run, the others any number of
\* times while supervisor objects are left.
InitMgr ==
    /\ conns = [c \in ConnObjs |-> NoObject]
    /\ connections = [id \in Ids |-> None]
    /\ \E mcps \in MgrConfigLists : config = AppConfig(TRUE, mcps)
    /\ next_conn = 1
    /\ mgr_lock = Free
    /\ pc = [t \in Tasks |-> IF t = "init" THEN "start" ELSE "idle"]
    /\ tgt = [t \in Tasks |-> None]
    /\ init_i = 1
    /\ h_todo = {}
    /\ backend \in [Ids -> {Backend("up"), Backend("dead")}]
    /\ body \in SimpleBodies
    /\ post_i = 1
    /\ responses = <<>>
    /\ disabled = <<{}, {}>>
    /\ http_resp = NoResponse
    /\ sent = <<>>
    /\ get_route = "health"
    /\ ExtOff

\* The tasks that call connect() or disconnect() in these runs.
MgrTasks == {"init", "cmd", "add", "update", "remove"}

NextMgr ==
    \/ InitAcquire
    \/ InitNext
    \/ InitInsert
    \/ \E cfg \in AddConfigs : MgrAdd(cfg)
    \/ AddInsert
    \/ \E cfg \in UpdateConfigs : MgrUpdate(cfg)
    \/ UpdNew
    \/ UpdInsert
    \/ \E id \in Ids : MgrRemove(id)
    \/ RmConfig
    \/ tgt["cmd"] = None /\ \E id \in Ids : CmdConnect(id)
    \/ tgt["cmd"] = None /\ \E id \in Ids : CmdDisconnect(id)
    \/ \E t \in MgrTasks : ConnectBegin(t)
    \/ \E t \in MgrTasks : ConnectOpenOk(t)
    \/ \E t \in MgrTasks : ConnectOpenFail(t)
    \/ \E t \in MgrTasks : ConnectSetError(t)
    \/ \E t \in MgrTasks : ConnectFetchLock(t)
    \/ \E t \in MgrTasks : ConnectFetchDone(t)
    \/ \E t \in MgrTasks : ConnectSetConnected(t)
    \/ \E t \in MgrTasks : DisconnectTake(t)
    \/ \E t \in MgrTasks : DisconnectClear(t)
    \/ \E t \in MgrTasks : DisconnectSetState(t)

SpecMgr == InitMgr /\ [][NextMgr]_vars

\* --------------------------------- update_app_config beside the health loop

\* The configs update_app_config is called with; one has a port validate() refuses.
NewAppConfigs ==
    {[proxy_port |-> p, health_check_interval_secs |-> h, auto_reconnect |-> a,
      max_reconnect_attempts |-> m, connection_timeout_secs |-> ct, mcps |-> <<>>] :
        p \in {80} \cup Ports, h \in {DefaultHealthInterval, DefaultHealthInterval * 2},
        a \in BOOLEAN, m \in {1, MaxAttempts},
        ct \in {DefaultConnectionTimeout, DefaultConnectionTimeout * 2}}

NextCfg ==
    \/ NextHealth
    \/ \E new \in NewAppConfigs : CfgCall(new)
    \/ CfgUpdate
    \/ CfgLockConfigMgr
    \/ CfgLockMgr
    \/ CfgSave

SpecCfg == InitHealth /\ [][NextCfg]_vars

\* ------------------------------------------- GET /mcp/:id on its own

\* The program as run() leaves it, with the initialisation task, connect_mcp and
\* disconnect_mcp, the backend going down and up, and a client that sends GET /mcp/:id.
NextGet ==
    \/ InitAcquire
    \/ InitNext
    \/ InitInsert
    \/ \E id \in Ids : CmdConnect(id)
    \/ \E id \in Ids : CmdDisconnect(id)
    \/ \E t \in {"init", "cmd"} : ConnectBegin(t)
    \/ \E t \in {"init", "cmd"} : ConnectOpenOk(t)
    \/ \E t \in {"init", "cmd"} : ConnectOpenFail(t)
    \/ \E t \in {"init", "cmd"} : ConnectSetError(t)
    \/ \E t \in {"init", "cmd"} : ConnectFetchLock(t)
    \/ \E t \in {"init", "cmd"} : ConnectFetchDone(t)
    \/ \E t \in {"init", "cmd"} : ConnectSetConnected(t)
    \/ DisconnectTake("cmd")
    \/ DisconnectClear("cmd")
    \/ DisconnectSetState("cmd")
    \/ \E id \in Ids : BackendDown(id)
    \/ \E id \in Ids : BackendUp(id)
    \/ GetArrive("mcp")
    \/ \E id \in Ids : McpGetServe(id)

SpecGet == Init /\ [][NextGet]_vars

\* --------------------------------------- connect() against any backend

\* The program as run() leaves it, with a backend that is up, down for good, or
\* silent.
InitHang ==
    /\ conns = [c \in ConnObjs |-> NoObject]
    /\ connections = [id \in Ids |-> None]
    /\ \E en \in BOOLEAN : config = AppConfig(TRUE, <<ServerConfig("a", en, {}, {})>>)
    /\ next_conn = 1
    /\ mgr_lock = Free
    /\ pc = [t \in Tasks |-> IF t = "init" THEN "start" ELSE "idle"]
    /\ tgt = [t \in Tasks |-> None]
    /\ init_i = 1
    /\ h_todo = {}
    /\ backend \in [Ids -> {Backend("up"), Backend("dead"), Backend("silent")}]
    /\ body \in SimpleBodies
    /\ post_i = 1
    /\ responses = <<>>
    /\ disabled = <<{}, {}>>
    /\ http_resp = NoResponse
    /\ sent = <<>>
    /\ get_route = "health"
    /\ ExtOff

\* The steps of a connect() call of task t.
ConnectSteps(t) ==
    \/ ConnectBegin(t)
    \/ ConnectOpenOk(t)
    \/ ConnectOpenFail(t)
    \/ ConnectSetError(t)
    \/ ConnectFetchLock(t)
    \/ ConnectFetchDone(t)
    \/ ConnectSetConnected(t)

\* initialize() and the user's connect_mcp and disconnect_mcp.
NextHang ==
    \/ InitAcquire
    \/ InitNext
    \/ InitInsert
    \/ \E id \in Ids : CmdConnect(id)
    \/ \E id \in Ids : CmdDisconnect(id)
    \/ \E t \in {"init", "cmd"} : ConnectSteps(t)
    \/ DisconnectTake("cmd")
    \/ DisconnectClear("cmd")
    \/ DisconnectSetState("cmd")
    \/ \E id \in Ids : BackendDown(id)
    \/ \E id \in Ids : BackendUp(id)

\* A connect() call that can take a step takes it: the runtime keeps polling it.
SpecHang ==
    InitHang /\ [][NextHang]_vars /\ WF_vars(ConnectSteps("init"))
             /\ WF_vars(ConnectSteps("cmd"))

\* ------------------------------------------------ the bridge on its own

\* The core before run() has started anything, with no backend configured.
CoreOff ==
    /\ conns = [c \in ConnObjs |-> NoObject]
    /\ connections = [id \in Ids |-> None]
    /\ config = AppConfig(TRUE, <<>>)
    /\ next_conn = 1
    /\ mgr_lock = Free
    /\ pc = [t \in Tasks |-> "idle"]
    /\ tgt = [t \in Tasks |-> None]
    /\ init_i = 1
    /\ h_todo = {}
    /\ backend = [id \in Ids |-> Backend("up")]
    /\ body \in SimpleBodies
    /\ post_i = 1
    /\ responses = <<>>
    /\ disabled = <<{}, {}>>
    /\ http_resp = NoResponse
    /\ sent = <<>>
    /\ get_route = "health"
    /\ cm_lock = Free

\* The bridge started, nothing read from stdin yet.
InitBridge ==
    /\ CoreOff
    /\ bridge = [pc |-> "read", n |-> 0, line |-> [kind |-> "empty", id |-> NoId],
                 outcome |-> Off, stdout |-> <<>>]
    /\ sse = Off
    /\ session = Off

NextBridge ==
    \/ \E line \in BridgeLines : BridgeReadLine(line)
    \/ \E o \in PostOutcomes : BridgeHandleLine(o)
    \/ BridgeEof

SpecBridge == InitBridge /\ [][NextBridge]_vars

\* ------------------------------------------ the legacy SSE worker on its own

\* The worker spawned, the GET not yet sent.
InitSse ==
    /\ CoreOff
    /\ bridge = Off
    /\ session = Off
    /\ sse = [pc |-> "get", endpoint |-> FALSE, messages_url |-> "", posted |-> <<>>, out |-> "none",
              n |-> 0, ev |-> "none", ev_url |-> "", quit |-> "none", reader |-> "none",
              sse_rx |-> <<>>, asked |-> {}, inflight |-> {}, send_err |-> {},
              answered |-> {}, failed |-> {}]

NextSse ==
    \/ \E ok \in BOOLEAN : SseOpen(ok)
    \/ \E ev \in SseEvents : SseWaitEndpoint(ev)
    \/ SseRecvFromHandler
    \/ \E o \in SsePostOutcomes : SsePostInit(o)
    \/ \E ev \in SseEvents : SseReadInit(ev)
    \/ \E o \in SsePostOutcomes : SsePostNotif(o)
    \/ \E ev \in SseEvents : SseReader(ev)
    \/ \E id \in 1..MaxReqs : SseRecvRequest(id)
    \/ \E o \in SsePostOutcomes : SsePost(o)
    \/ SseDeliver
    \/ SseReaderGone
    \/ SseCancel

SpecSse == InitSse /\ [][NextSse]_vars

\* The worker as tokio runs it: a task that can take a step takes it, the backend
\* answers every POST, and the handler's channel is served.
SpecSseLive ==
    /\ SpecSse
    /\ WF_vars(SseRecvFromHandler)
    /\ WF_vars(\E o \in SsePostOutcomes : SsePostInit(o))
    /\ WF_vars(\E o \in SsePostOutcomes : SsePostNotif(o))
    /\ WF_vars(\E o \in SsePostOutcomes : SsePost(o))
    /\ WF_vars(SseDeliver)
    /\ WF_vars(SseReaderGone)

\* ------------------------------------- closing a Streamable HTTP session

\* A session the backend has opened, about to be closed.
InitSession ==
    /\ CoreOff
    /\ bridge = Off
    /\ sse = Off
    /\ \E id \in SessionIds, tok \in AuthTokens :
         session = [pc |-> "open", id |-> id, auth_token |-> tok, request |-> NoRequest,
                    status |-> NoStatus, result |-> "none", log |-> "none"]

NextSession ==
    \/ SessionDeleteSend
    \/ \E st \in DeleteStatuses \cup {NoStatus} : SessionDeleteAnswer(st)

SpecSession == InitSession /\ [][NextSession]_vars

\* ---------------------- update_app_config beside a command that persists

\* The tauri commands run as the runtime schedules them: update_app_config, and
\* the persist_config that ends add_mcp, update_mcp and remove_mcp.
NextPersist ==
    \/ \E new \in NewAppConfigs : CfgCall(new)
    \/ CfgUpdate
    \/ CfgLockConfigMgr
    \/ CfgLockMgr
    \/ CfgSave
    \/ \E t \in PersistTasks : PersistLockMgr(t)
    \/ \E t \in PersistTasks : PersistLockConfigMgr(t)
    \/ \E t \in PersistTasks : PersistSave(t)

SpecPersist == InitHealth /\ [][NextPersist]_vars

\* ================================================================ claims

\* C1: in every reachable state of a supervisor, under any interleaving of connect,
\* disconnect, ping and execute, status(proxy_port).proxy_url is present if and only
\* if the state is Connected, and when present it is http://127.0.0.1:{port}/mcp/{id}.
C1_ProxyUrlIffConnected ==
    \A c \in Allocated, port \in Ports :
        LET url == status(conns[c], port).proxy_url
        IN /\ (url # None) <=> (conns[c].state = "Connected")
           /\ url # None =>
                url = Some([scheme |-> "http", host |-> "127.0.0.1", port |-> port,
                            path |-> <<"mcp", conns[c].config.id>>])

\* C1 witness: a Connected supervisor reports its proxy_url while a manual
\* command is about to act on it.
C1_Witness ==
    \E c \in Allocated :
        /\ conns[c].state = "Connected"
        /\ status(conns[c], DefaultProxyPort).proxy_url # None
        /\ pc["cmd"] \in {"connect", "disc"}
        /\ tgt["cmd"] = Some(c)

\* C2 as stated: with the backend down for the whole run, the connect() calls made
\* on its supervisor number at most max_reconnect_attempts.
C2_TotalConnectsBounded ==
    \A c \in Allocated :
        backend[conns[c].config.id].mode = "dead"
            => conns[c].calls.total <= config.max_reconnect_attempts

\* C2 amended: with the backend down for the whole run, the connect() calls the
\* health loop makes on its supervisor number at most max_reconnect_attempts, and
\* the supervisor's reconnect counter never exceeds max_reconnect_attempts.
C2_HealthConnectsBounded ==
    \A c \in Allocated :
        backend[conns[c].config.id].mode = "dead"
            => /\ conns[c].calls.health <= config.max_reconnect_attempts
               /\ conns[c].reconnect_attempts <= config.max_reconnect_attempts

\* C2 witness: the health loop has used up its attempts on a backend that is down
\* for the whole run, after the connect() of initialize().
C2_Witness ==
    \E c \in Allocated :
        /\ backend[conns[c].config.id].mode = "dead"
        /\ conns[c].calls.health = config.max_reconnect_attempts
        /\ conns[c].calls.total = config.max_reconnect_attempts + 1
        /\ pc["cmd"] = "idle" /\ tgt["cmd"] = None

\* The points of a task where it awaits the backend: the transport open of connect(),
\* the list calls of fetch_capabilities and ping(), the call of execute_request.
AwaitingBackend == {"open", "fetching", "pinging", "p_await"}

\* C3: no request handler (a proxy HTTP handler or a supervisory command) holds the
\* manager lock while a backend call it awaits is in progress.
C3_NoLockAcrossBackendCall ==
    \A t \in {"post", "get", "cmd"} :
        pc[t] \in AwaitingBackend => mgr_lock # t

\* C4: while a tools/call forwarded by POST /mcp/:id is in flight, a GET /health or
\* GET /mcps that has arrived can run to completion without the call returning.
C4_GetServedDuringCall ==
    (pc["post"] = "p_await" /\ pc["get"] = "g_lock") => ENABLED GetServe

\* C8: execute forwards a call to the backend only when the supervisor's state is
\* Connected; in every other state nothing is sent.
C8_ForwardOnlyWhenConnected ==
    [][(pc["post"] = "p_elem" /\ pc'["post"] = "p_await")
          => conns[Conn("post")].state = "Connected"]_vars

\* C10: a supervisor enters Connecting only from Disconnected or Error: no connect()
\* sets Connecting from Connected, Connecting or Reconnecting.
C10_ConnectingOnlyFromDisconnectedOrError ==
    [][\A t \in SupTasks :
          (pc[t] = "connect" /\ pc'[t] = "open")
              => conns[Conn(t)].state \in {"Disconnected", "Error"}]_vars

\* The handler has answered the posted body (the id was registered).
Answered == pc["post"] = "idle" /\ http_resp.status \in {200, 202}

\* The elements handle_single_request answers: an id and a string method.
Requests == SelectSeq(body.elems, LAMBDA e : e.id # NoId /\ e.method # NoMethod)

\* C5: while POST /mcp/:id with disabled_tools D and disabled_resources R in the
\* backend's config builds its response, no tools/list result in it names a tool
\* in D and no resources/list result names a resource in R, whatever the backend lists.
C5_DisabledItemsFiltered ==
    pc["post"] # "idle" =>
        \A i \in 1..Len(responses), j \in 1..Len(config.mcps) :
            LET r == responses[i].result
                m == config.mcps[j]
            IN (responses[i].ok /\ m.id = conns[Conn("post")].config.id) =>
                 \A k \in 1..Len(r.items) :
                     /\ r.kind = "tools" => r.items[k] \notin m.disabled_tools
                     /\ r.kind = "resources" => r.items[k] \notin m.disabled_resources

\* C5 witness: with tb and ra disabled, the backend listed both tools and both
\* resources, and the batch's results keep ta and rb only.
C5_Witness ==
    /\ pc["post"] # "idle"
    /\ config.mcps[1].disabled_tools = {"tb"}
    /\ config.mcps[1].disabled_resources = {"ra"}
    /\ Len(responses) = 2
    /\ responses[1].ok /\ responses[1].result.kind = "tools"
    /\ responses[1].result.items = <<"ta">>
    /\ responses[2].ok /\ responses[2].result.kind = "resources"
    /\ responses[2].result.items = <<"rb">>

\* C6: a POST whose body is one JSON-RPC object without an id, for a method the
\* connected supervisor forwards, is answered 202 with an empty body, and the
\* backend has received exactly one message for it.
C6_NotificationDispatched ==
    (/\ Answered
     /\ ~body.batch
     /\ body.elems[1].id = NoId
     /\ body.elems[1].method \in Whitelist
     /\ body.elems[1].params_ok
     /\ conns[Conn("post")].service = Some("live"))
        => /\ http_resp.status = 202
           /\ http_resp.body = <<>>
           /\ Len(sent) = 1

\* C7: for a posted batch, the response array has one element per id-carrying
\* element of the input, in the input's order and with its id; a batch with no
\* id-carrying element is answered 202.
C7_OneResponsePerIdCarryingElement ==
    (Answered /\ body.batch) =>
        LET carrying == SelectSeq(body.elems, LAMBDA e : e.id # NoId)
        IN IF carrying = <<>>
           THEN http_resp.status = 202
           ELSE /\ http_resp.status = 200
                /\ Len(http_resp.body) = Len(carrying)
                /\ \A i \in 1..Len(carrying) : http_resp.body[i].id = carrying[i].id

\* C9 as stated: every id-carrying request whose method is outside the whitelist
\* (and is not initialize) is answered with error code -32601, whatever the
\* supervisor's state.
C9_UnknownMethodAlways32601 ==
    Answered =>
        /\ Len(http_resp.body) = Len(Requests)
        /\ \A i \in 1..Len(Requests) :
              Requests[i].method \notin Whitelist \cup {"initialize"}
                  => ~http_resp.body[i].ok /\ http_resp.body[i].code = -32601

\* C9 amended: an id-carrying request whose method is outside the whitelist (and is
\* not initialize) is answered with error code -32601 when the supervisor holds a
\* transport session, and with -32000 (not connected) when it holds none; every
\* other failure of execute is answered with -32000.
C9_ErrorCodes ==
    Answered =>
        /\ Len(http_resp.body) = Len(Requests)
        /\ \A i \in 1..Len(Requests) :
              LET e == Requests[i]
                  r == http_resp.body[i]
                  s == conns[Conn("post")]
              IN /\ r.id = e.id
                 /\ e.method \notin Whitelist \cup {"initialize"} =>
                      /\ ~r.ok
                      /\ s.service # None => r.code = -32601
                      /\ s.service = None =>
                           r.code = -32000 /\ r.message = <<"Not connected">>
                 /\ (~r.ok /\ e.method \in Whitelist) => r.code = -32000
                 /\ r.ok => r.code = 0

\* C9 witness: a batch answered with -32601 for its unknown method and with -32000
\* for the call the backend failed.
C9_Witness ==
    /\ Answered
    /\ body.batch
    /\ Len(http_resp.body) = 2
    /\ Requests[1].method = "nope/zzz" /\ http_resp.body[1].code = -32601
    /\ Requests[2].method = "tools/call" /\ http_resp.body[2].code = -32000
    /\ conns[Conn("post")].service # None

\* C11: when connect() returns success the supervisor is Connected with last_error
\* cleared, reconnect_attempts 0 and connected_at set; when it returns failure the
\* supervisor is in Error with last_error set.
C11_ConnectPostcondition ==
    [][\A t \in SupTasks :
          /\ (pc[t] = "set_connected" /\ pc'[t] # pc[t]) =>
                /\ conns'[Conn(t)].state = "Connected"
                /\ conns'[Conn(t)].error_message = None
                /\ conns'[Conn(t)].reconnect_attempts = 0
                /\ conns'[Conn(t)].connected_at # None
          /\ (pc[t] = "set_error_state" /\ pc'[t] # pc[t]) =>
                /\ conns'[Conn(t)].state = "Error"
                /\ conns'[Conn(t)].error_message # None]_vars

\* C12: when the transport opened but capability discovery fails (here: the session
\* is lost before the list calls are answered), connect() goes on to set Connected
\* and the tool and resource caches are empty, also when the supervisor held a
\* snapshot from an earlier connection.
C12_FailedDiscoveryLeavesEmptyCaches ==
    [][\A t \in SupTasks :
          (/\ pc[t] = "fetching"
           /\ pc'[t] # pc[t]
           /\ conns[Conn(t)].service = Some("dead"))
              => /\ pc'[t] = "set_connected"
                 /\ conns'[Conn(t)].tools = <<>>
                 /\ conns'[Conn(t)].resources = <<>>]_vars

\* C13: disconnect() leaves the supervisor Disconnected with no transport session
\* and an empty capability snapshot, from any prior state, and a second disconnect()
\* leaves exactly the state the first one left.
C13_DisconnectPostcondition ==
    [][\A t \in SupTasks :
          (pc[t] = "disc_state" /\ pc'[t] # pc[t]) =>
              /\ conns'[Conn(t)].state = "Disconnected"
              /\ conns'[Conn(t)].service = None
              /\ conns'[Conn(t)].tools = <<>>
              /\ conns'[Conn(t)].resources = <<>>
              /\ disconnect(conns'[Conn(t)]) = conns'[Conn(t)]]_vars

\* C14: a disconnect() issued while an execute() request is in flight on the same
\* supervisor goes ahead (taking and cancelling the session, which ends the
\* request) without waiting for the backend to answer the request.
C14_DisconnectCancelsInFlight ==
    (/\ pc["post"] = "p_await"
     /\ pc["cmd"] = "disc"
     /\ tgt["cmd"] = tgt["post"])
        => ENABLED DisconnectTake("cmd")

\* The transport of a Connected supervisor is lost, with auto_reconnect enabled, the
\* backend enabled and the attempts below the maximum.
TransportLost(c) ==
    /\ conns[c].state = "Connected"
    /\ conns[c].service = Some("dead")
    /\ config.auto_reconnect
    /\ conns[c].config.enabled
    /\ conns[c].reconnect_attempts < config.max_reconnect_attempts

\* C15: once the transport of a Connected supervisor is lost mid-session, the
\* supervisor's state becomes Error, and (auto_reconnect enabled, the backend
\* enabled, attempts below the maximum) the health loop eventually calls connect()
\* on it again.
C15_LostTransportReconnected ==
    \A c \in ConnObjs :
        /\ (c \in Allocated /\ TransportLost(c)) ~> (conns[c].state = "Error")
        /\ (c \in Allocated /\ TransportLost(c))
              ~> (pc["health"] = "connect" /\ tgt["health"] = Some(c))

\* The fields of a supervisor a failed ping() must leave alone.
PingFrame(s) ==
    <<s.state, s.service, s.tools, s.resources, s.last_ping, s.error_message,
      s.reconnect_attempts, s.connected_at>>

\* C16: in a health cycle, a failed ping() on a Connected supervisor changes nothing
\* on it: state, transport session, capability caches, last_ping, last_error and
\* reconnect_attempts are as before (ping() fails at once when there is no session,
\* and fails on the list call when the session is lost).
C16_FailedPingChangesNothing ==
    [][\A t \in SupTasks :
          /\ (pc[t] = "ping" /\ pc'[t] # pc[t] /\ conns[Conn(t)].service = None) =>
                /\ pc'[t] = Return(t)
                /\ conns'[Conn(t)] = conns[Conn(t)]
          /\ (pc[t] = "pinging" /\ pc'[t] # pc[t] /\ conns[Conn(t)].service = Some("dead")) =>
                /\ pc'[t] = Return(t)
                /\ PingFrame(conns'[Conn(t)]) = PingFrame(conns[Conn(t)])
          /\ (pc[t] = "pinging" /\ pc'[t] # pc[t]) =>
                PingFrame([conns'[Conn(t)] EXCEPT !.last_ping = None])
                    = PingFrame([conns[Conn(t)] EXCEPT !.last_ping = None])]_vars

\* C16 witness: with no command ever issued, the health cycle has pinged a Connected
\* supervisor whose session is lost; the ping failed (last_ping was never set) and
\* the supervisor is still Connected with its session and caches.
C16_Witness ==
    \E c \in Allocated :
        /\ pc["health"] = "h_next"
        /\ tgt["health"] = Some(c)
        /\ tgt["cmd"] = None
        /\ conns[c].state = "Connected"
        /\ conns[c].service = Some("dead")
        /\ conns[c].last_ping = None
        /\ conns[c].tools # <<>>

\* C17: add_mcp with an id already in the registry fails and leaves the registry and
\* the config list unchanged, with no supervisor built and no connect attempted; the
\* body of add_mcp is entered only for an id that is not registered, and when it
\* returns Ok the id is registered with the new supervisor and cfg has been appended
\* to the config list once.
C17_AddRejectsDuplicate ==
    [][/\ (pc["add"] # "err" /\ pc'["add"] = "err") =>
            /\ \E id \in Ids : get_connection(id) # None
            /\ UNCHANGED <<conns, connections, config, next_conn, tgt>>
       /\ (pc["add"] \in Returned /\ pc'["add"] \in {"connect", "add_insert"}) =>
            /\ get_connection(conns'[next_conn].config.id) = None
            /\ UNCHANGED <<connections, config>>
       /\ (pc["add"] = "add_insert" /\ pc'["add"] # "add_insert") =>
            LET cfg == conns[Conn("add")].config
            IN /\ pc'["add"] = "idle"
               /\ connections' = [connections EXCEPT ![cfg.id] = tgt["add"]]
               /\ config'.mcps = Append(config.mcps, cfg)
               /\ Len(SelectSeq(config'.mcps, LAMBDA m : m = cfg))
                    = Len(SelectSeq(config.mcps, LAMBDA m : m = cfg)) + 1]_vars

\* add_mcp has been refused for an id that is registered and in the config list.
C17_Witness ==
    /\ pc["add"] = "err"
    /\ get_connection("a") # None
    /\ \E i \in 1..Len(config.mcps) : config.mcps[i].id = "a"

\* The supervisors the registry holds.
Registered == {id \in Ids : get_connection(id) # None}

\* C18: when initialize() returns on a valid config whose entries are all enabled,
\* and every supervisor that exists was built by it, the registry holds as many
\* supervisors as the config has backend entries, and no id has had more than one
\* supervisor built for it.
C18_OneSupervisorPerEntry ==
    [][(/\ pc["init"] = "init_next" /\ pc'["init"] = "done"
        /\ \A i \in 1..Len(config.mcps) : config.mcps[i].enabled
        /\ next_conn - 1 = Len(config.mcps)) =>
            /\ Cardinality(Registered) = Len(config.mcps)
            /\ \A id \in Ids :
                 Cardinality({c \in Allocated : conns[c].config.id = id}) <= 1]_vars

\* The entries of a config list that carry the id.
EntriesOf(mcps, id) == SelectSeq(mcps, LAMBDA m : m.id = id)

\* C19: update_mcp replaces atomically. It holds the manager lock from its first
\* step to its return; when the old supervisor has been disconnected it is
\* Disconnected with no session; and when update_mcp returns the registry maps
\* cfg.id to a supervisor built from cfg that was not registered before, and the
\* config list holds exactly one entry for cfg.id, equal to cfg.
C19_UpdateReplacesAtomically ==
    [][/\ (pc'["update"] \notin Returned) => mgr_lock' = "update"
       /\ (pc["update"] = "upd_new" /\ pc'["update"] # "upd_new") =>
            /\ conns[Conn("update")].state = "Disconnected"
            /\ conns[Conn("update")].service = None
       /\ (pc["update"] = "upd_insert" /\ pc'["update"] # "upd_insert") =>
            LET cfg == conns[Conn("update")].config
            IN /\ get_connection(cfg.id) = None
               /\ connections' = [connections EXCEPT ![cfg.id] = tgt["update"]]
               /\ EntriesOf(config'.mcps, cfg.id) = <<cfg>>]_vars

\* C20: when remove_mcp returns, the id is in neither the registry nor the config
\* list, and the supervisor it evicted is Disconnected with no transport session.
C20_RemoveDisconnectsAndEvicts ==
    [][(pc["remove"] = "rm_config" /\ pc'["remove"] # "rm_config") =>
          /\ \A id \in Ids : get_connection(id)' = None /\ EntriesOf(config'.mcps, id) = <<>>
          /\ tgt["remove"] # None =>
               /\ conns[Conn("remove")].state = "Disconnected"
               /\ conns[Conn("remove")].service = None]_vars

\* The five global knobs of an AppConfig.
Knobs(cfg) ==
    <<cfg.proxy_port, cfg.health_check_interval_secs, cfg.auto_reconnect,
      cfg.max_reconnect_attempts, cfg.connection_timeout_secs>>

\* C21: update_config sets the five global knobs to the supplied values and leaves
\* the backend list, the registry and every supervisor unchanged.
C21_UpdateConfigSetsKnobs ==
    [][(pc["cfg"] = "cfg_update" /\ pc'["cfg"] # "cfg_update") =>
          /\ Knobs(config') = Knobs(tgt["cfg"][1])
          /\ config'.mcps = config.mcps
          /\ UNCHANGED <<connections, conns>>]_vars

\* A config entry without its disabled lists.
Policyless(m) == [m EXCEPT !.disabled_tools = {}, !.disabled_resources = {}]

\* The disabled lists of the first entry of a config that carries the id.
DisabledIn(cfg, id) ==
    LET at == {i \in 1..Len(cfg.mcps) : cfg.mcps[i].id = id}
    IN IF at = {} THEN <<{}, {}>>
       ELSE LET m == cfg.mcps[CHOOSE i \in at : \A j \in at : i <= j]
            IN <<m.disabled_tools, m.disabled_resources>>

\* C22: a step that changes the config in the runs of SpecPost (set_disabled_items)
\* changes only the disabled lists of entries: the knobs, the registry and every
\* supervisor (state, session, caches) are unchanged; and a POST handled for the id
\* afterwards filters with the lists the entry holds, so that no tools/list or
\* resources/list result in its response names an item those lists disable.
C22_SetDisabledItemsOnlyPolicy ==
    [][/\ config' # config =>
            /\ Knobs(config') = Knobs(config)
            /\ Len(config'.mcps) = Len(config.mcps)
            /\ \A i \in 1..Len(config.mcps) :
                 Policyless(config'.mcps[i]) = Policyless(config.mcps[i])
            /\ UNCHANGED <<conns, connections>>
       /\ (pc'["post"] # "idle" /\ tgt'["post"] # None) =>
            /\ disabled' = DisabledIn(config', conns'[tgt'["post"][1]].config.id)
            /\ \A i \in 1..Len(responses') :
                 LET r == responses'[i].result
                 IN responses'[i].ok =>
                      \A k \in 1..Len(r.items) :
                          /\ r.kind = "tools" => r.items[k] \notin disabled'[1]
                          /\ r.kind = "resources" => r.items[k] \notin disabled'[2]]_vars

\* C22 witness: set_disabled_items has disabled tb for a Connected supervisor whose
\* cache still lists ta and tb, and the POST handled since answers tools/list with ta.
C22_Witness ==
    /\ pc["post"] # "idle"
    /\ config.mcps[1].disabled_tools = {"tb"}
    /\ conns[1].state = "Connected"
    /\ conns[1].tools = <<"ta", "tb">>
    /\ Len(responses) >= 1
    /\ responses[1].ok /\ responses[1].result.kind = "tools"
    /\ responses[1].result.items = <<"ta">>

\* The elements of the posted body that are initialize requests with an id.
InitializeRequests ==
    SelectSeq(body.elems, LAMBDA e : e.id # NoId /\ e.method = "initialize")

\* C23: when POST /mcp/:id has answered a body for a registered backend, every
\* initialize request with an id in it has a response with that id, a result and
\* protocolVersion "2025-03-26", whatever the supervisor's state, and no initialize
\* message was sent to the backend.
C23_InitializeAnsweredByGateway ==
    (Answered /\ InitializeRequests # <<>>) =>
        /\ http_resp.status = 200
        /\ \A i \in 1..Len(InitializeRequests) :
             \E j \in 1..Len(http_resp.body) :
                 /\ http_resp.body[j].id = InitializeRequests[i].id
                 /\ http_resp.body[j].ok
                 /\ http_resp.body[j].result.kind = "initialize"
                 /\ http_resp.body[j].result.protocolVersion = "2025-03-26"
        /\ \A k \in 1..Len(sent) : sent[k] # "initialize"
        /\ (Len(body.elems) = 1 => sent = <<>>)

\* C23 witness: one initialize request with id i1 was answered for a supervisor that
\* is not Connected and has no session.
C23_Witness ==
    /\ Answered
    /\ body = [batch |-> FALSE, elems |-> <<Request("i1", "initialize", TRUE)>>]
    /\ conns[1].state = "Connecting"
    /\ conns[1].service = None
    /\ http_resp.body[1].id = "i1"

\* C24: GET /mcp/:id answers 404 when the id is not in the registry, 503 when it is
\* registered and its state is not Connected, 405 otherwise, and the step changes
\* nothing but the response: no supervisor, no backend, nothing sent.
C24_GetStatus ==
    [][(pc["get"] = "g_lock" /\ pc'["get"] = "idle") =>
          /\ \E id \in Ids :
               /\ get_connection(id) = None => http_resp'.status = 404
               /\ (get_connection(id) # None
                     /\ conns[get_connection(id)[1]].state # "Connected") =>
                        http_resp'.status = 503
               /\ (get_connection(id) # None
                     /\ conns[get_connection(id)[1]].state = "Connected") =>
                        http_resp'.status = 405
          /\ http_resp'.body = <<>>
          /\ UNCHANGED <<conns, backend, sent, connections, config>>]_vars

\* C24 witness: GET /mcp/a was answered 503 for a registered supervisor in Error.
C24_Witness ==
    /\ pc["get"] = "idle"
    /\ http_resp.status = 503
    /\ get_connection("a") # None
    /\ conns[1].state = "Error"

\* C25: a connect() call that is opening the transport eventually ends: the task
\* leaves the open step (and with it the supervisor leaves Connecting) whatever the
\* backend does, a backend that never answers the handshake included.
C25_ConnectEnds ==
    \A t \in {"init", "cmd"} : (pc[t] = "open") ~> (pc[t] # "open")

\* What handle_line has just written: the part of stdout the step appended.
Written == SubSeq(bridge'.stdout, Len(bridge.stdout) + 1, Len(bridge'.stdout))

\* The bridge ends the POST of a JSON line.
BridgeAnswers == bridge.pc = "post" /\ bridge'.pc # "post"

\* C26 as stated: after the POST of a JSON line the bridge writes nothing for a 202,
\* the response body and a newline for every other response, and on a network
\* failure an error reply with code -32000 and the request's id, or nothing for a
\* notification.
C26_BodyUnlessAccepted ==
    [][BridgeAnswers =>
         LET o == bridge'.outcome
             id == bridge.line.id
         IN /\ (o.kind = "response" /\ o.status = 202) => Written = <<>>
            /\ (o.kind = "response" /\ o.status # 202 /\ o.body_ok) =>
                 Written = <<BridgeBody(o.body)>>
            /\ (o.kind = "unreachable" /\ id # NoId) =>
                 /\ Len(Written) = 1
                 /\ Written[1].kind = "error" /\ Written[1].code = -32000
                 /\ Written[1].id = id /\ Written[1].newline
            /\ (o.kind = "unreachable" /\ id = NoId) => Written = <<>>]_vars

\* C26 amended: nothing for a 202; the body and a newline for another 2xx whose body
\* is read, and nothing when it cannot be read; for a non-2xx status and for a POST
\* that failed, an error reply with code -32000 and the request's id when the line
\* had an id, nothing when it was a notification.
C26_BridgeReplies ==
    [][BridgeAnswers =>
         LET o == bridge'.outcome
             id == bridge.line.id
             failed == o.kind = "unreachable" \/ o.status \notin 200..299
         IN /\ (o.kind = "response" /\ o.status = 202) => Written = <<>>
            /\ (o.kind = "response" /\ o.status \in 200..299 /\ o.status # 202) =>
                 Written = IF o.body_ok THEN <<BridgeBody(o.body)>> ELSE <<>>
            /\ (failed /\ id # NoId) =>
                 /\ Len(Written) = 1
                 /\ Written[1].kind = "error" /\ Written[1].code = -32000
                 /\ Written[1].id = id /\ Written[1].newline
            /\ (failed /\ id = NoId) => Written = <<>>]_vars

\* C26 witness: the line with id i1 was answered 404 and the bridge wrote an error
\* reply for i1, not the body.
C26_Witness ==
    /\ bridge.pc = "read"
    /\ bridge.line = [kind |-> "json", id |-> "i1"]
    /\ bridge.outcome # Off
    /\ bridge.outcome.status = 404
    /\ bridge.stdout # <<>>
    /\ bridge.stdout[Len(bridge.stdout)].kind = "error"
    /\ bridge.stdout[Len(bridge.stdout)].id = "i1"

\* C27: the legacy SSE worker POSTs no outbound message, initialize included, before
\* an endpoint event has been received on the stream, and when the stream ends
\* while the worker still waits for the endpoint event the worker quits with
\* NoEndpoint, so that open fails.
C27_NoPostBeforeEndpoint ==
    /\ [](sse.posted # <<>> => sse.endpoint)
    /\ [][/\ sse'.posted # sse.posted => sse.endpoint
          /\ (sse.pc = "wait_endpoint" /\ sse'.n = sse.n + 1 /\ sse'.ev = "end") =>
               /\ sse'.pc = "quit" /\ sse'.quit = "NoEndpoint"
               /\ sse'.posted = <<>>]_vars

\* C27 witness: events of other types came before the endpoint event, nothing was
\* POSTed while they came, and initialize was POSTed after it.
C27_Witness ==
    /\ sse.endpoint
    /\ sse.n >= 3
    /\ sse.pc = "read_init"
    /\ Len(sse.posted) = 1
    /\ sse.posted[1].msg = "initialize"

\* C28: in the steady state (the reader task spawned) the end of the stream, a
\* message event that does not parse and a POST answered with a non-2xx status each
\* terminate the session, with no request left in flight.
C28_FatalEventsTerminate ==
    \A e \in {"end", "error", "garbage", "non2xx"} :
        (sse.reader # "none" /\ sse.ev = e) ~> (sse.pc = "quit" /\ sse.inflight = {})

\* The part of C28 the worker keeps: the end of the stream, or an error reading it,
\* terminates the session and fails the requests in flight.
C28_StreamEndTerminates ==
    \A e \in {"end", "error"} :
        (sse.reader # "none" /\ sse.ev = e) ~> (sse.pc = "quit" /\ sse.inflight = {})

\* C29: closing a Streamable HTTP session sends DELETE with the session id in the
\* session header, and whatever status the server answers the close returns Ok:
\* 2xx and 405 silently, 404 and 400 with a debug line, any other status with a
\* warning.
C29_DeleteSessionTolerant ==
    /\ session.pc # "open" =>
         /\ session.request.method = "DELETE"
         /\ session.request.session_header = session.id
    /\ (session.pc = "closed" /\ session.status # NoStatus) =>
         /\ session.result = "Ok"
         /\ session.log = (IF session.status \in 200..299 \cup {405} THEN "none"
                           ELSE IF session.status \in {404, 400} THEN "debug"
                           ELSE "warn")

\* C29 witness: the server answered the DELETE of session s2 with 500 and the close
\* returned Ok after a warning.
C29_Witness ==
    /\ session.pc = "closed"
    /\ session.id = "s2"
    /\ session.request.session_header = "s2"
    /\ session.status = 500
    /\ session.result = "Ok"
    /\ session.log = "warn"

\* C30: no mutex of a supervisor is held across a transport call: a task that awaits
\* the backend's answer to a call it made through the session (a forwarded request,
\* a ping, the list calls that fill the caches) does not hold the supervisor's
\* session mutex meanwhile, so a second request, a ping or a disconnect on the same
\* supervisor can take it.
C30_NoMutexAcrossTransportCall ==
    \A t \in Tasks :
        pc[t] \in {"fetching", "pinging", "p_await"} =>
            conns[Conn(t)].service_lock = Free

\* C31: in a health cycle connect() is called on a supervisor only when the cycle
\* found it in Error or Disconnected with auto_reconnect enabled, the backend
\* enabled and reconnect_attempts below max_reconnect_attempts, and the counter is
\* incremented by exactly one before the call; a supervisor found in Connecting or
\* Reconnecting is skipped, untouched.
C31_HealthReconnectGuard ==
    [][(pc["health"] = "h_next" /\ h_todo' # h_todo) =>
         LET c == tgt'["health"][1]
         IN /\ pc'["health"] = "connect" =>
                 /\ conns[c].state \in {"Error", "Disconnected"}
                 /\ config.auto_reconnect
                 /\ conns[c].config.enabled
                 /\ conns[c].reconnect_attempts < config.max_reconnect_attempts
                 /\ conns'[c].reconnect_attempts = conns[c].reconnect_attempts + 1
            /\ conns[c].state \in {"Connecting", "Reconnecting"} =>
                 /\ pc'["health"] = "h_next"
                 /\ conns' = conns]_vars

\* C31 witness: the health cycle is about to call connect() for the second time on
\* a supervisor in Error, the counter just raised from 1 to 2.
C31_Witness ==
    /\ pc["health"] = "connect"
    /\ conns[Conn("health")].state = "Error"
    /\ conns[Conn("health")].reconnect_attempts = 2
    /\ conns[Conn("health")].error_message # None

\* C32: capability discovery that failed at connect time is retried by the health
\* cycle: when the tools/list of a health-cycle ping on the Connected supervisor
\* succeeds (the ping records its first last_ping), the tool cache holds the tools
\* the backend reports.
C32_DiscoveryRetriedByHealth ==
    [][(/\ pc["health"] = "pinging"
        /\ conns[Conn("health")].last_ping = None
        /\ conns'[Conn("health")].last_ping # None)
          => LET s == conns'[Conn("health")]
             IN s.tools = backend[s.config.id].tools]_vars

\* A health-loop reconnect attempt on supervisor c has failed and another one is
\* due: c is in Error with one attempt counted, the loop is between two cycles.
BetweenAttempts(c) ==
    /\ pc["health"] = "idle"
    /\ connections["a"] = Some(c)
    /\ conns[c].state = "Error"
    /\ conns[c].reconnect_attempts = 1
    /\ config.auto_reconnect
    /\ conns[c].config.enabled
    /\ conns[c].reconnect_attempts < config.max_reconnect_attempts

\* C33: a supervisor the health loop is reconnecting passes through the state
\* Reconnecting between two attempts.
C33_ReconnectingBetweenAttempts ==
    \A c \in ConnObjs : BetweenAttempts(c) ~> (conns[c].state = "Reconnecting")

\* What holds instead: no supervisor is ever in Reconnecting.
C33_NeverReconnecting ==
    \A c \in ConnObjs : conns[c].state # "Reconnecting"

\* An event of the stream is consumed after the endpoint event has been received.
LaterEvent == sse.endpoint /\ sse'.n = sse.n + 1

\* C34: the POST endpoint is fixed by the first endpoint event: a later endpoint
\* event, in the handshake or in the steady state, changes nothing of the session
\* (only the event is consumed), no later event of any kind changes the POST URL,
\* and every message is POSTed to the URL the first endpoint event gave.
C34_EndpointFixedByFirstEvent ==
    /\ [][(LaterEvent /\ sse'.ev = "endpoint") =>
             sse' = [sse EXCEPT !.n = @ + 1, !.ev = "endpoint",
                                !.ev_url = sse'.ev_url]]_vars
    /\ [][sse.endpoint => (sse'.endpoint /\ sse'.messages_url = sse.messages_url)]_vars
    /\ [](\A i \in 1..Len(sse.posted) : sse.posted[i].url = sse.messages_url)

\* C34 witness: in the steady state, after the first endpoint event gave one URL and
\* initialize, initialized and a request were POSTed to it, an endpoint event with
\* another URL has just been consumed and the POST URL is still the first one.
C34_Witness ==
    /\ sse.pc = "steady"
    /\ sse.reader = "running"
    /\ sse.ev = "endpoint"
    /\ sse.ev_url = "/messages?s=2"
    /\ sse.messages_url = "/messages?s=1"
    /\ Len(sse.posted) = 3
    /\ sse.posted[3].url = "/messages?s=1"

\* A task is inside disconnect() on supervisor c, the session taken and the state
\* not yet set.
Disconnecting(c) ==
    \E t \in SupTasks :
        pc[t] \in {"disc_clear", "disc_state"} /\ tgt[t] = Some(c)

\* C35: under any interleaving of connect() and disconnect() calls on a supervisor,
\* whenever its state is Connected (and no disconnect() is half-way through it) it
\* holds a transport session.
C35_ConnectedHoldsSession ==
    \A c \in Allocated :
        (conns[c].state = "Connected" /\ ~Disconnecting(c)) => conns[c].service # None

\* Task t waits for the manager lock while it holds the ConfigManager's, or the
\* other way round.
WaitsForMgr(t) == pc[t] = "cfg_mgr" /\ cm_lock = t
WaitsForConfigMgr(t) == pc[t] = "persist_cm" /\ mgr_lock = t

\* C36: no interleaving of the supervisory commands deadlocks on the manager lock
\* and the ConfigManager lock: update_app_config and a command inside
\* persist_config never each hold the lock the other waits for.
C36_NoLockCycle ==
    ~ \E t, u \in Tasks :
        /\ WaitsForMgr(t) /\ mgr_lock = u
        /\ WaitsForConfigMgr(u) /\ cm_lock = t

\* Supervisor c has been evicted: it exists, the registry no longer maps an id to
\* it, and no initialize, add, update or remove is building it or disconnecting it.
Evicted(c) ==
    /\ c \in Allocated
    /\ conns[c] # NoObject
    /\ \A id \in Ids : connections[id] # Some(c)
    /\ ~ \E t \in {"init", "add", "update", "remove"} : Holds(t, c)

\* C37: once remove or update has evicted a supervisor (and disconnected it), it
\* never again holds a transport session or reaches Connected, whatever a manual
\* connect or disconnect that looked it up before the eviction does afterwards.
C37_EvictedStaysDown ==
    \A c \in ConnObjs :
        Evicted(c) => (conns[c].service = None /\ conns[c].state # "Connected")

\* C38: the health loop does not hold the manager lock while a ping() or a
\* connect() of its cycle awaits the backend.
C38_HealthLoopReleasesLock ==
    pc["health"] \in AwaitingBackend => mgr_lock # "health"

\* No id has two entries in the config list mcps.
NoDuplicateIds(mcps) == \A id \in Ids : Len(EntriesOf(mcps, id)) <= 1

\* C39: initialize, add, update and remove keep the registry and the config list
\* in step: when one of them returns (the manager lock is released) on a config list
\* that had no id twice, every id of the registry has exactly one entry in the
\* config list and no id appears twice in it.
C39_RegistryMatchesConfig ==
    [][(/\ mgr_lock \in {"init", "add", "update", "remove"}
        /\ mgr_lock' = Free
        /\ NoDuplicateIds(config.mcps)) =>
           /\ NoDuplicateIds(config'.mcps)
           /\ \A id \in Ids :
                get_connection(id)' # None => Len(EntriesOf(config'.mcps, id)) = 1]_vars

\* C40: in every reachable state of a supervisor, connected_at, and with it the
\* uptime_seconds of its status, is present only while the state is Connected.
C40_UptimeOnlyWhileConnected ==
    \A c \in Allocated :
        LET st == status(conns[c], config.proxy_port)
        IN (st.connected_at # None \/ st.uptime_seconds # None) => st.state = "Connected"


====
